---- MODULE Spec2Model ----
(***************************************************************************)
(* State-machine model of src/findVideos.js: the search-result collector   *)
(* (selector cascade, scroll loop, de-duplication), the per-video          *)
(* transcript acquisition pipeline and the run around them.                *)
(***************************************************************************)
EXTENDS Integers, Sequences, FiniteSets, TLC

VARIABLES
  pc,                       \* position of the run in findVideosWithKeywords
  source,                   \* the listing page: which selector carries the videos, and its possible contents
  dom,                      \* what document.querySelectorAll returns now, per selector (a list of hrefs)
  videoElements,            \* let videoElements (hrefs of the elements kept)
  evaluated,                \* selectors queried by the last getAllVideoElements call, in order
  initialElements,          \* result of the query made before the loop
  sourceStatic,             \* every re-query so far returned what the first query returned
  previousLength,           \* let previousLength
  scrollAttempts,           \* let scrollAttempts
  consecutiveNoChangeCount, \* let consecutiveNoChangeCount
  scrollCalls,              \* number of window.scrollTo calls made
  stopReason,               \* which "stopping" line was logged after the loop
  videoLinks,               \* const videoLinks (the value page.evaluate returned)
  browser,                  \* "none", "open" or "closed"
  fatal,                    \* the outer catch ("Fatal error:") has run
  saved,                    \* what fs.writeFileSync was given, in order
  keywords,                 \* the keywords argument
  exactPhraseSearch,        \* the exactPhraseSearch argument
  transcriptResults,        \* const transcriptResults
  idx,                      \* position of the for-of loop in videoLinks (0 before the loop)
  cand,                     \* the constants declared in the body of the loop, for the current video
  navigations,              \* page.goto calls made for the current video
  clickCount,               \* elements clicked for the current video
  tried,                    \* approaches of the transcript-option search gone through for the current video
  lastEval                  \* the last page.evaluate of the current video: what it saw and what it clicked

collectorVars == <<source, dom, videoElements, evaluated, initialElements, sourceStatic,
                   previousLength, scrollAttempts, consecutiveNoChangeCount,
                   scrollCalls, stopReason, videoLinks>>

runVars == <<browser, fatal, saved, keywords, exactPhraseSearch, transcriptResults>>

candVars == <<idx, cand, navigations, clickCount, tried, lastEval>>

vars == <<pc, collectorVars, runVars, candVars>>

----------------------------------------------------------------------------
(* Bounds of the model *)

\* listing sizes 0..MaxSmall are explored besides the sizes around the target
MaxSmall == 2

\* the run is explored on listings of up to MaxVideos videos
MaxVideos == 2

(* Program constants *)

\* the literal 100 of the loop condition, the stop log and the final slice
TargetCount == 100
maxScrollAttempts == 20
maxConsecutiveNoChanges == 3
\* const selectors = [...] has six entries
NumSelectors == 6

----------------------------------------------------------------------------
(* Hrefs.  An anchor is represented by its href: 0 is an element without   *)
(* href, a negative number a link that is no video link, a positive odd    *)
(* number a "/watch?v=" URL and a positive even number a "/shorts/" URL.   *)

HasHref(h) == h # 0
IsWatch(h) == h > 0 /\ h % 2 = 1
IsShorts(h) == h > 0 /\ h % 2 = 0

IsValidElement_NoFilter(h) == TRUE

\* the filter of getAllVideoElements
IsValidElement(h) == HasHref(h) /\ (IsWatch(h) \/ IsShorts(h))

StrategySucceeds_Raw(found, valid) == Len(found) > 0

\* if (validElements.length > 0) { elements = validElements; break; }
StrategySucceeds(found, valid) == Len(valid) > 0

RECURSIVE Cascade(_, _, _)
Cascade(d, i, log) ==
  IF i > NumSelectors
    THEN [elements |-> << >>, evaluated |-> log]
    ELSE LET found == d[i]
             valid == SelectSeq(found, IsValidElement)
         IN  IF StrategySucceeds(found, valid)
               THEN [elements |-> valid, evaluated |-> Append(log, i)]
               ELSE Cascade(d, i + 1, Append(log, i))

RECURSIVE Cascade_NoBreak(_, _, _, _)
Cascade_NoBreak(d, i, log, acc) ==
  IF i > NumSelectors
    THEN [elements |-> acc, evaluated |-> log]
    ELSE LET valid == SelectSeq(d[i], IsValidElement)
         IN  Cascade_NoBreak(d, i + 1, Append(log, i),
                             IF Len(valid) > 0 THEN valid ELSE acc)

getAllVideoElements_NoBreak(d) == Cascade_NoBreak(d, 1, << >>, << >>)

\* const getAllVideoElements = () => { ... }
getAllVideoElements(d) == Cascade(d, 1, << >>)

----------------------------------------------------------------------------
(* The listing page.  source.w is the selector that carries the video      *)
(* links (NumSelectors + 1: none does); selectors before it return nothing *)
(* or only elements the filter rejects, selectors after it may return      *)
(* another valid link.  The list under source.w changes with scrolling.    *)

\* "distinct": every href once; "paired": every href twice in a row; "resurface": the
\* first href comes back at every fiftieth position; "mixed": every second element is a
\* link the filter rejects
Patterns == {"distinct", "paired", "resurface", "mixed"}

ListingHref(p, i) ==
  CASE p = "distinct"  -> i
    [] p = "paired"    -> (i + 1) \div 2
    [] p = "resurface" -> IF i % 50 = 0 THEN 1 ELSE i
    [] p = "mixed"     -> IF i % 2 = 0 THEN 0 - i ELSE i

Listing(n, p) == [i \in 1..n |-> ListingHref(p, i)]

RejectedList == <<0, -1>>
LaterList == <<1001>>

DomOf(src, n, p) ==
  [i \in 1..NumSelectors |->
     IF i < src.w
       THEN IF src.inv = 2 \/ (src.inv = 1 /\ i % 2 = 1) THEN RejectedList ELSE << >>
       ELSE IF i = src.w THEN Listing(n, p)
       ELSE IF src.later THEN LaterList ELSE << >>]

SmallSizes == 0..MaxSmall
BigSizes == {TargetCount - 1, TargetCount, TargetCount + 1, TargetCount + 3}

Layouts == [w : 1..(NumSelectors + 1), inv : 0..2, later : BOOLEAN]

SourceOf(l, sizes, pats) ==
  [w |-> l.w, inv |-> l.inv, later |-> l.later, sizes |-> sizes, patterns |-> pats]

----------------------------------------------------------------------------
(* The collector: lines 144-254 *)

LoopCondition_LateStability(len, attempts, noChange) ==
  len < TargetCount /\ attempts < maxScrollAttempts /\ noChange <= maxConsecutiveNoChanges

LoopCondition_NoTarget(len, attempts, noChange) ==
  attempts < maxScrollAttempts /\ noChange < maxConsecutiveNoChanges

LoopCondition_OffByOne(len, attempts, noChange) ==
  len < TargetCount /\ attempts <= maxScrollAttempts /\ noChange <= maxConsecutiveNoChanges

\* while (videoElements.length < 100 && scrollAttempts < maxScrollAttempts && ...)
LoopCondition(len, attempts, noChange) ==
  len < TargetCount /\ attempts < maxScrollAttempts /\ noChange < maxConsecutiveNoChanges

NextNoChangeCount_GrowthOnly(len, prev, noChange) ==
  IF len <= prev THEN noChange + 1 ELSE 0

\* if (videoElements.length === previousLength) consecutiveNoChangeCount++; else ... = 0
NextNoChangeCount(len, prev, noChange) ==
  IF len = prev THEN noChange + 1 ELSE 0

Contains(s, x) == \E k \in 1..Len(s) : s[k] = x

AddLink_NoSet(acc, h) == IF HasHref(h) THEN Append(acc, h) ELSE acc

\* if (a.href && !uniqueUrls.has(a.href)) { uniqueUrls.add(a.href); uniqueLinks.push(a.href); }
AddLink(acc, h) == IF HasHref(h) /\ ~Contains(acc, h) THEN Append(acc, h) ELSE acc

\* videoElements.forEach over positions lo..hi, left to right.  The range is halved
\* and the left half's result is computed before the right half is entered, which
\* keeps the evaluation depth logarithmic in the length of the list.
RECURSIVE ForEachLink(_, _, _, _)
ForEachLink(els, lo, hi, acc) ==
  IF lo > hi THEN acc
  ELSE IF lo = hi THEN AddLink(acc, els[lo])
  ELSE LET mid == (lo + hi) \div 2
           left == ForEachLink(els, lo, mid, acc)
       IN  IF Len(left) >= 0 THEN ForEachLink(els, mid + 1, hi, left) ELSE acc

\* const uniqueLinks = []; videoElements.forEach(...)
uniqueLinks(els) == ForEachLink(els, 1, Len(els), << >>)

Slice_None(s, n) == s

\* Array.prototype.slice(0, n)
Slice(s, n) == IF Len(s) <= n THEN s ELSE SubSeq(s, 1, n)

StopReasonOf(len, attempts, noChange) ==
  IF len >= TargetCount THEN "target"
  ELSE IF attempts >= maxScrollAttempts THEN "attempts"
  ELSE IF noChange >= maxConsecutiveNoChanges THEN "stability"
  ELSE "none"

\* let videoElements = getAllVideoElements(); and the three counters
InitialQuery ==
  /\ pc = "query"
  /\ LET r == getAllVideoElements(dom)
     IN  /\ videoElements' = r.elements
         /\ evaluated' = r.evaluated
         /\ initialElements' = r.elements
  /\ previousLength' = 0
  /\ scrollAttempts' = 0
  /\ consecutiveNoChangeCount' = 0
  /\ pc' = "loop"
  /\ UNCHANGED <<source, dom, sourceStatic, scrollCalls, stopReason, videoLinks>>
  /\ UNCHANGED <<runVars, candVars>>

\* one iteration of the while loop; the page reloads its list during the two waits
ScrollIteration ==
  /\ pc = "loop"
  /\ LoopCondition(Len(videoElements), scrollAttempts, consecutiveNoChangeCount)
  /\ previousLength' = Len(videoElements)
  /\ scrollCalls' = scrollCalls + 2
  /\ \E n \in source.sizes, p \in source.patterns :
       /\ dom' = DomOf(source, n, p)
       /\ LET r == getAllVideoElements(dom')
          IN  /\ videoElements' = r.elements
              /\ evaluated' = r.evaluated
              /\ sourceStatic' = (sourceStatic /\ r.elements = initialElements)
              /\ consecutiveNoChangeCount' =
                   NextNoChangeCount(Len(r.elements), previousLength', consecutiveNoChangeCount)
  /\ scrollAttempts' = scrollAttempts + 1
  /\ UNCHANGED <<pc, source, initialElements, stopReason, videoLinks>>
  /\ UNCHANGED <<runVars, candVars>>

\* loop exit, the "stopping" log, uniqueLinks and return uniqueLinks.slice(0, 100)
FinishCollect ==
  /\ pc = "loop"
  /\ ~LoopCondition(Len(videoElements), scrollAttempts, consecutiveNoChangeCount)
  /\ stopReason' = StopReasonOf(Len(videoElements), scrollAttempts, consecutiveNoChangeCount)
  /\ videoLinks' = Slice(uniqueLinks(videoElements), TargetCount)
  /\ pc' = "collected"
  /\ UNCHANGED <<source, dom, videoElements, evaluated, initialElements, sourceStatic,
                 previousLength, scrollAttempts, consecutiveNoChangeCount, scrollCalls>>
  /\ UNCHANGED <<runVars, candVars>>

CollectorStart(src) ==
  /\ source = src
  /\ \E n \in src.sizes, p \in src.patterns : dom = DomOf(src, n, p)
  /\ videoElements = << >>
  /\ evaluated = << >>
  /\ initialElements = << >>
  /\ sourceStatic = TRUE
  /\ previousLength = 0
  /\ scrollAttempts = 0
  /\ consecutiveNoChangeCount = 0
  /\ scrollCalls = 0
  /\ stopReason = "none"
  /\ videoLinks = << >>

----------------------------------------------------------------------------
(* Strings.  Texts that the program takes apart are TLA+ strings; a        *)
(* character is a string of length 1.  The texts of the model hold no line *)
(* break, sign, decimal point or exponent.                                 *)

\* s.charAt(i - 1): the empty string outside s
CharAt(s, i) == IF i >= 1 /\ i <= Len(s) THEN SubSeq(s, i, i) ELSE ""

LowerLetters == "abcdefghijklmnopqrstuvwxyz"
UpperLetters == "ABCDEFGHIJKLMNOPQRSTUVWXYZ"
Digits == "0123456789"

CharsOf(alphabet) == {CharAt(alphabet, i) : i \in 1..Len(alphabet)}

PositionIn(alphabet, c) == CHOOSE i \in 1..Len(alphabet) : CharAt(alphabet, i) = c

DigitChars == CharsOf(Digits)
UpperChars == CharsOf(UpperLetters)
AlphaNumericChars == CharsOf(LowerLetters) \cup UpperChars \cup DigitChars
DigitValues == [c \in DigitChars |-> PositionIn(Digits, c) - 1]
LowerOfUpper == [c \in UpperChars |-> CharAt(LowerLetters, PositionIn(UpperLetters, c))]

IsDigit(c) == c \in DigitChars
DigitValue(c) == DigitValues[c]

\* [a-zA-Z0-9]
IsAlphaNumeric(c) == c \in AlphaNumericChars

IsSpace(c) == c = " "

ToLowerChar_Identity(c) == c

ToLowerChar(c) == IF c \in UpperChars THEN LowerOfUpper[c] ELSE c

\* String.prototype.toLowerCase
RECURSIVE ToLowerCase(_)
ToLowerCase(s) ==
  IF Len(s) = 0 THEN "" ELSE ToLowerChar(CharAt(s, 1)) \o ToLowerCase(Tail(s))

\* String.prototype.indexOf: the least 0-based position of needle in s, or -1
IndexOf(s, needle) ==
  LET P == {p \in 0..(Len(s) - Len(needle)) : SubSeq(s, p + 1, p + Len(needle)) = needle}
  IN  IF P = {} THEN 0 - 1 ELSE CHOOSE p \in P : \A q \in P : p <= q

\* String.prototype.includes on strings that are taken apart
StringIncludes(s, needle) == IndexOf(s, needle) >= 0

RECURSIVE LeftTrim(_)
LeftTrim(s) == IF Len(s) > 0 /\ IsSpace(CharAt(s, 1)) THEN LeftTrim(Tail(s)) ELSE s

RECURSIVE RightTrim(_)
RightTrim(s) ==
  IF Len(s) > 0 /\ IsSpace(CharAt(s, Len(s))) THEN RightTrim(SubSeq(s, 1, Len(s) - 1)) ELSE s

\* String.prototype.trim
Trim(s) == RightTrim(LeftTrim(s))

\* String.prototype.split(sep), sep one character: the parts, in order
RECURSIVE SplitOn(_, _)
SplitOn(s, sep) ==
  LET p == IndexOf(s, sep)
  IN  IF p < 0 THEN <<s>>
      ELSE <<SubSeq(s, 1, p)>> \o SplitOn(SubSeq(s, p + 2, Len(s)), sep)

\* the number of digits s holds from position from on
RECURSIVE DigitRun(_, _)
DigitRun(s, from) ==
  IF from <= Len(s) /\ IsDigit(CharAt(s, from)) THEN 1 + DigitRun(s, from + 1) ELSE 0

RECURSIVE DecimalValue(_)
DecimalValue(s) ==
  IF Len(s) = 0 THEN 0
  ELSE 10 * DecimalValue(SubSeq(s, 1, Len(s) - 1)) + DigitValue(CharAt(s, Len(s)))

RECURSIVE DecimalString(_)
DecimalString(n) ==
  IF n < 10 THEN CharAt(Digits, n + 1)
  ELSE DecimalString(n \div 10) \o CharAt(Digits, (n % 10) + 1)

----------------------------------------------------------------------------
(* Numbers.  NaN is represented by an integer that no computation of the   *)
(* model reaches otherwise; the arithmetic of the program goes through     *)
(* Plus, Minus and Times, which hand NaN on as the program's operators do. *)

NaN == 0 - 1000000000
IsNaN(x) == x = NaN
Plus(a, b) == IF IsNaN(a) \/ IsNaN(b) THEN NaN ELSE a + b
Minus(a, b) == IF IsNaN(a) \/ IsNaN(b) THEN NaN ELSE a - b
Times(a, b) == IF IsNaN(a) \/ IsNaN(b) THEN NaN ELSE a * b

\* Number(s): the empty or blank string is 0, a string of digits its value, any
\* other string of the model NaN
ToNumber(s) ==
  LET t == Trim(s)
  IN  IF Len(t) = 0 THEN 0
      ELSE IF DigitRun(t, 1) = Len(t) THEN DecimalValue(t)
      ELSE NaN

\* Math.round(num / den) for den > 0: the nearest integer, halves upwards
RoundQuotient(num, den) == (2 * num + den) \div (2 * den)

----------------------------------------------------------------------------
(* TimeCodec: lines 45-72 *)

MapNumber(parts) == [i \in 1..Len(parts) |-> ToNumber(parts[i])]

timestampToSeconds_MinutesOnly(timestamp) ==
  LET parts == MapNumber(SplitOn(timestamp, ":"))
  IN  IF Len(parts) = 3
        THEN Plus(Times(parts[2], 60), parts[3])
      ELSE IF Len(parts) = 2
        THEN Plus(Times(parts[1], 60), parts[2])
      ELSE 0

\* function timestampToSeconds(timestamp)
timestampToSeconds(timestamp) ==
  LET parts == MapNumber(SplitOn(timestamp, ":"))
  IN  IF Len(parts) = 3
        THEN Plus(Plus(Times(parts[1], 3600), Times(parts[2], 60)), parts[3])
      ELSE IF Len(parts) = 2
        THEN Plus(Times(parts[1], 60), parts[2])
      ELSE 0

\* n.toString().padStart(2, "0"), n >= 0
PadStart2(n) == IF n < 10 THEN "0" \o DecimalString(n) ELSE DecimalString(n)

\* function secondsToTimestamp(seconds), seconds a non-negative integer or NaN
secondsToTimestamp(seconds) ==
  IF IsNaN(seconds) THEN "NaN:NaN"
  ELSE LET hours == seconds \div 3600
           minutes == (seconds % 3600) \div 60
           secs == seconds % 60
       IN  IF hours > 0
             THEN PadStart2(hours) \o ":" \o PadStart2(minutes) \o ":" \o PadStart2(secs)
             ELSE PadStart2(minutes) \o ":" \o PadStart2(secs)

\* the position of the first occurrence of the keyword that stands between word
\* boundaries, or of the first occurrence when there is none
estimateKeywordPosition_WordBounded(text, keyword) ==
  LET keywordLower == ToLowerCase(keyword)
      textLower == ToLowerCase(text)
      keywordIndex == IndexOf(textLower, keywordLower)
      P == {p \in 0..(Len(textLower) - Len(keywordLower)) :
              /\ SubSeq(textLower, p + 1, p + Len(keywordLower)) = keywordLower
              /\ p = 0 \/ ~IsAlphaNumeric(CharAt(textLower, p))
              /\ \/ p + Len(keywordLower) = Len(textLower)
                 \/ ~IsAlphaNumeric(CharAt(textLower, p + Len(keywordLower) + 1))}
  IN  IF keywordIndex = 0 - 1 THEN [num |-> 0, den |-> 1]
      ELSE IF P = {} THEN [num |-> keywordIndex, den |-> Len(textLower)]
      ELSE [num |-> CHOOSE p \in P : \A q \in P : p <= q, den |-> Len(textLower)]

\* function estimateKeywordPosition(text, keyword): the position as the fraction
\* num / den (keywordIndex / textLower.length, or 0)
estimateKeywordPosition(text, keyword) ==
  LET keywordLower == ToLowerCase(keyword)
      textLower == ToLowerCase(text)
      keywordIndex == IndexOf(textLower, keywordLower)
  IN  IF keywordIndex = 0 - 1 THEN [num |-> 0, den |-> 1]
      ELSE [num |-> keywordIndex, den |-> Len(textLower)]

----------------------------------------------------------------------------
(* Element texts.  The texts of the page are drawn from a fixed vocabulary; *)
(* Contained(t) lists the strings searched for by the program that occur    *)
(* in t, ContainedLower(t) those that occur in t.toLowerCase().             *)

Contained(t) ==
  CASE t = "Accept all"               -> {"Accept all"}
    [] t = "I agree"                  -> {"I agree"}
    [] t = "Show transcript"          -> {"Show transcript", "transcript"}
    [] t = "Open transcript"          -> {"Open transcript", "transcript"}
    [] t = "Transcript"               -> {"Transcript"}
    [] t = "More actions"             -> {"More"}
    [] t = "English (auto-generated)" -> {"English", "auto", "auto-generated"}
    [] t = "English"                  -> {"English"}
    [] t = "english subtitles"        -> {"english"}
    [] OTHER                          -> {}

ContainedLower(t) ==
  CASE t = "Show transcript"          -> {"transcript"}
    [] t = "Open transcript"          -> {"transcript"}
    [] t = "Transcript"               -> {"transcript"}
    [] t = "TRANSCRIPT"               -> {"transcript"}
    [] t = "English (auto-generated)" -> {"english", "auto", "auto-generated",
                                          "english (auto-generated)"}
    [] t = "English"                  -> {"english"}
    [] t = "english subtitles"        -> {"english"}
    [] t = "Automatic captions"       -> {"auto"}
    [] OTHER                          -> {}

\* String.prototype.includes
Includes(t, needle) == needle \in Contained(t)

\* t.toLowerCase().includes(needle), needle in lower case
LowerIncludes(t, needle) == needle \in ContainedLower(t)

\* index of the first element of s that satisfies Test, 0 when there is none
FirstIndex(s, Test(_)) ==
  IF \E k \in 1..Len(s) : Test(s[k])
    THEN CHOOSE k \in 1..Len(s) : Test(s[k]) /\ \A j \in 1..(k - 1) : ~Test(s[j])
    ELSE 0

\* index of the last element of s that satisfies Test, 0 when there is none
LastIndex(s, Test(_)) ==
  IF \E k \in 1..Len(s) : Test(s[k])
    THEN CHOOSE k \in 1..Len(s) : Test(s[k]) /\ \A j \in (k + 1)..Len(s) : ~Test(s[j])
    ELSE 0

\* elements carry the selector they are found under (sel, 0: none of the list); the
\* loops "for selector of selectors, for element of querySelectorAll(selector)" reach
\* first the element with the least (sel, position) among those satisfying Test
FirstBySelector(s, Test(_)) ==
  LET K == {k \in 1..Len(s) : s[k].sel >= 1 /\ Test(s[k])}
  IN  IF K = {} THEN 0
      ELSE CHOOSE k \in K :
             \A j \in K : s[k].sel < s[j].sel \/ (s[k].sel = s[j].sel /\ k <= j)

----------------------------------------------------------------------------
(* The state of one video: lines 261-967 *)

CleanCand ==
  [accept |-> "unset", direct |-> "unset", menu |-> "unset", transcript |-> "unset",
   popup |-> "unset", engagement |-> "unset", dropdown |-> "unset", option |-> "unset",
   segments |-> << >>, title |-> "unset", matches |-> << >>,
   error |-> FALSE, skippedAt |-> "none"]

NoEval == [step |-> "none", view |-> << >>, clicked |-> 0]

Evaluated(step, view, clicked) == [step |-> step, view |-> view, clicked |-> clicked]

Clicks(k) == IF k > 0 THEN 1 ELSE 0

CandidateSteps ==
  {"goto", "consent", "direct", "shorts", "more", "anyButton", "transcript", "popup",
   "engagement", "dropdown", "option", "parse", "title", "match"}

\* the for-of loop takes videoLinks[i], or leaves the loop
LoopTo(i) ==
  /\ idx' = i
  /\ cand' = CleanCand
  /\ navigations' = 0
  /\ clickCount' = 0
  /\ tried' = << >>
  /\ lastEval' = NoEval
  /\ pc' = IF i <= Len(videoLinks) THEN "goto" ELSE "save"

videoUrl == videoLinks[idx]

\* continue; (or the end of the catch block)
Skip(c, at) == [c EXCEPT !.skippedAt = at]

----------------------------------------------------------------------------
(* What the page shows to each page.evaluate *)

ConsentViews ==
  { << >>, <<"Sign in">>, <<"Sign in", "Accept all">>, <<"I agree", "Accept all">> }

Label(text, visible) == [text |-> text, visible |-> visible]

DirectViews ==
  { << >>,
    <<Label("Share", TRUE)>>,
    <<Label("Transcript", FALSE), Label("Share", TRUE), Label("Show transcript", TRUE)>>,
    <<Label("TRANSCRIPT", TRUE)>>,
    <<Label("Transcript", TRUE), Label("Show transcript", TRUE)>> }

Icons(svg, yticon) == [svg |-> svg, yticon |-> yticon]

ShortsViews ==
  { << >>,
    <<Icons(FALSE, FALSE)>>,
    <<Icons(FALSE, FALSE), Icons(TRUE, FALSE), Icons(FALSE, TRUE)>>,
    <<Icons(FALSE, TRUE)>> }

Button(sel, icon, aria, text, title, visible, width, height) ==
  [sel |-> sel, icon |-> icon, aria |-> aria, text |-> text, title |-> title,
   visible |-> visible, width |-> width, height |-> height]

ButtonViews ==
  { << >>,
    <<Button(3, TRUE, "More actions", "", "", TRUE, 40, 40),
      Button(1, TRUE, "More actions", "", "", TRUE, 40, 40)>>,
    <<Button(0, TRUE, "More actions", "", "", TRUE, 40, 40),
      Button(6, TRUE, "", "", "More actions", FALSE, 40, 40)>>,
    <<Button(2, TRUE, "Share", "Share", "", TRUE, 40, 40),
      Button(0, TRUE, "", "", "", FALSE, 40, 40),
      Button(0, TRUE, "", "Share", "", TRUE, 16, 16)>>,
    <<Button(1, FALSE, "More actions", "", "", TRUE, 40, 40),
      Button(0, FALSE, "", "Share", "", TRUE, 40, 16),
      Button(0, FALSE, "", "Share", "", TRUE, 24, 24),
      Button(0, FALSE, "", "Sign in", "", TRUE, 30, 30),
      Button(0, FALSE, "", "Share", "", FALSE, 40, 40)>>,
    <<Button(0, FALSE, "", "Share", "", TRUE, 20, 20),
      Button(0, TRUE, "", "Share", "", FALSE, 40, 40)>> }

Item(text, aria) == [text |-> text, aria |-> aria]

Panel(panel, menuItems, buttons, dots) ==
  [panel |-> panel, menuItems |-> menuItems, buttons |-> buttons, dots |-> dots]

TranscriptViews ==
  { Panel(TRUE, <<"Show transcript">>, <<Item("Transcript", "")>>, 1),
    Panel(FALSE, <<"Share", "Open transcript", "Show transcript">>,
          <<Item("Transcript", "")>>, 1),
    Panel(FALSE, <<"Share">>, <<Item("Share", ""), Item("Transcript", "")>>, 1),
    Panel(FALSE, << >>, <<Item("", "Show transcript"), Item("Show transcript", "")>>, 0),
    Panel(FALSE, <<"TRANSCRIPT">>, <<Item("TRANSCRIPT", "Transcript")>>, 2),
    Panel(FALSE, <<"Share">>, <<Item("Share", "")>>, 0) }

PopupViews == { << >>, <<"Share">>, <<"Share", "Transcript", "Show transcript">> }

EngagementViews == { << >>, <<"Show transcript">>, <<"Show transcript", "Transcript">> }

Dropdown(sel, text) == [sel |-> sel, text |-> text]

DropdownViews ==
  { << >>,
    <<Dropdown(6, "Share")>>,
    <<Dropdown(6, "Transcript"), Dropdown(2, "Deutsch"), Dropdown(2, "English")>>,
    <<Dropdown(4, "Automatic captions")>> }

OptionViews ==
  { << >>,
    <<"Deutsch", "English", "English (auto-generated)", "Automatic captions">>,
    <<"Deutsch", "english subtitles", "English">>,
    <<"Deutsch", "Share">> }

----------------------------------------------------------------------------
(* The steps of one video *)

\* await page.goto(videoUrl, ...)
Goto ==
  /\ pc = "goto"
  /\ navigations' = navigations + 1
  /\ pc' = "consent"
  /\ UNCHANGED <<idx, cand, clickCount, tried, lastEval>>
  /\ UNCHANGED <<collectorVars, runVars>>

IsAcceptButton(text) == Includes(text, "Accept all") \/ Includes(text, "I agree")

\* const acceptButtonExists = await page.evaluate(...)
Consent ==
  /\ pc = "consent"
  /\ \E view \in ConsentViews :
       LET k == FirstIndex(view, IsAcceptButton) IN
         /\ cand' = [cand EXCEPT !.accept = IF k > 0 THEN "true" ELSE "false"]
         /\ clickCount' = clickCount + Clicks(k)
         /\ lastEval' = Evaluated("consent", view, k)
  /\ pc' = "direct"
  /\ UNCHANGED <<idx, navigations, tried>>
  /\ UNCHANGED <<collectorVars, runVars>>

IsTranscriptLabel(el) ==
  /\ el.text # ""
  /\ Includes(el.text, "transcript") \/ Includes(el.text, "Transcript")
  /\ el.visible

DirectChoice_Last(view) == LastIndex(view, IsTranscriptLabel)

\* transcriptButtons[0], as an index into the elements queried
DirectChoice(view) == FirstIndex(view, IsTranscriptLabel)

AfterDirect_AlwaysMenu(found, url) == IF IsShorts(url) THEN "shorts" ELSE "more"

AfterDirect_SkipsMenuSearch(found, url) ==
  IF found THEN "dropdown" ELSE IF IsShorts(url) THEN "shorts" ELSE "more"

\* if (directTranscriptAvailable) {...} else { const isShorts = ...; if (isShorts) ... }
AfterDirect(found, url) ==
  IF found THEN "transcript" ELSE IF IsShorts(url) THEN "shorts" ELSE "more"

\* const directTranscriptAvailable = await page.evaluate(...)
Direct ==
  /\ pc = "direct"
  /\ \E view \in DirectViews :
       LET k == DirectChoice(view) IN
         /\ cand' = [cand EXCEPT !.direct = IF k > 0 THEN "true" ELSE "false"]
         /\ clickCount' = clickCount + Clicks(k)
         /\ lastEval' = Evaluated("direct", view, k)
         /\ pc' = AfterDirect(k > 0, videoUrl)
  /\ UNCHANGED <<idx, navigations, tried>>
  /\ UNCHANGED <<collectorVars, runVars>>

HasIconChild(b) == b.svg \/ b.yticon

Shorts_FallsBack ==
  /\ pc = "shorts"
  /\ \E view \in ShortsViews :
       LET k == FirstIndex(view, HasIconChild) IN
         /\ cand' = [cand EXCEPT !.menu = IF k > 0 THEN "shorts" ELSE "false"]
         /\ clickCount' = clickCount + Clicks(k)
         /\ lastEval' = Evaluated("shorts", view, k)
         /\ pc' = IF k > 0 THEN "transcript" ELSE "anyButton"
  /\ UNCHANGED <<idx, navigations, tried>>
  /\ UNCHANGED <<collectorVars, runVars>>

\* const shortsMenuClicked = await page.evaluate(...); if (!shortsMenuClicked) continue;
Shorts ==
  /\ pc = "shorts"
  /\ \E view \in ShortsViews :
       LET k == FirstIndex(view, HasIconChild) IN
         /\ cand' = IF k > 0 THEN [cand EXCEPT !.menu = "shorts"]
                    ELSE Skip([cand EXCEPT !.menu = "false"], "shorts")
         /\ clickCount' = clickCount + Clicks(k)
         /\ lastEval' = Evaluated("shorts", view, k)
         /\ pc' = IF k > 0 THEN "transcript" ELSE "skipped"
  /\ UNCHANGED <<idx, navigations, tried>>
  /\ UNCHANGED <<collectorVars, runVars>>

LooksLikeMoreActions(b) ==
  /\ b.icon
  /\ Includes(b.aria, "More") \/ Includes(b.text, "More") \/ Includes(b.title, "More")

IsVisibleIconButton(b) == b.icon /\ b.visible

MoreActionsChoice_BackupFirst(view) ==
  IF FirstIndex(view, IsVisibleIconButton) > 0
    THEN FirstIndex(view, IsVisibleIconButton)
    ELSE FirstBySelector(view, LooksLikeMoreActions)

\* the element clicked by the first page.evaluate of the regular-video branch
MoreActionsChoice(view) ==
  IF FirstBySelector(view, LooksLikeMoreActions) > 0
    THEN FirstBySelector(view, LooksLikeMoreActions)
    ELSE FirstIndex(view, IsVisibleIconButton)

\* const moreActionsClicked = await page.evaluate(...)
More ==
  /\ pc = "more"
  /\ \E view \in ButtonViews :
       LET k == MoreActionsChoice(view) IN
         /\ cand' = [cand EXCEPT !.menu = IF k > 0 THEN "moreActions" ELSE "false"]
         /\ clickCount' = clickCount + Clicks(k)
         /\ lastEval' = Evaluated("more", view, k)
         /\ pc' = IF k > 0 THEN "transcript" ELSE "anyButton"
  /\ UNCHANGED <<idx, navigations, tried>>
  /\ UNCHANGED <<collectorVars, runVars>>

IsPotentialMenuButton(b) == b.visible /\ b.width > 20 /\ b.height > 20

\* const anyButtonClicked = await page.evaluate(...); if (!anyButtonClicked) continue;
AnyButton ==
  /\ pc = "anyButton"
  /\ \E view \in ButtonViews :
       LET k == LastIndex(view, IsPotentialMenuButton) IN
         /\ cand' = IF k > 0 THEN [cand EXCEPT !.menu = "anyButton"]
                    ELSE Skip(cand, "anyButton")
         /\ clickCount' = clickCount + Clicks(k)
         /\ lastEval' = Evaluated("anyButton", view, k)
         /\ pc' = IF k > 0 THEN "transcript" ELSE "skipped"
  /\ UNCHANGED <<idx, navigations, tried>>
  /\ UNCHANGED <<collectorVars, runVars>>

IsTranscriptMenuItem(t) == Includes(t, "Show transcript") \/ Includes(t, "Open transcript")

IsTranscriptButton(b) ==
  \/ b.text # "" /\ (Includes(b.text, "transcript") \/ Includes(b.text, "Transcript"))
  \/ Includes(b.aria, "transcript")

TranscriptSearch_PanelIgnored(view) ==
  IF FirstIndex(view.menuItems, IsTranscriptMenuItem) > 0
    THEN [result |-> "true", by |-> "menuItems",
          clicked |-> FirstIndex(view.menuItems, IsTranscriptMenuItem),
          tried |-> <<"panel", "menuItems">>]
    ELSE [result |-> "false", by |-> "none", clicked |-> 0,
          tried |-> <<"panel", "menuItems", "buttons", "moreActions">>]

\* the body of const transcriptClicked = await page.evaluate(...): its return value,
\* the approach that produced it, the element it clicked (an index into the list that
\* approach queried) and the approaches gone through
TranscriptSearch(view) ==
  IF view.panel
    THEN [result |-> "true", by |-> "panel", clicked |-> 0, tried |-> <<"panel">>]
  ELSE IF FirstIndex(view.menuItems, IsTranscriptMenuItem) > 0
    THEN [result |-> "true", by |-> "menuItems",
          clicked |-> FirstIndex(view.menuItems, IsTranscriptMenuItem),
          tried |-> <<"panel", "menuItems">>]
  ELSE IF FirstIndex(view.buttons, IsTranscriptButton) > 0
    THEN [result |-> "true", by |-> "buttons",
          clicked |-> FirstIndex(view.buttons, IsTranscriptButton),
          tried |-> <<"panel", "menuItems", "buttons">>]
  ELSE IF view.dots > 0
    THEN [result |-> "clicked-more", by |-> "moreActions", clicked |-> 1,
          tried |-> <<"panel", "menuItems", "buttons", "moreActions">>]
  ELSE [result |-> "false", by |-> "none", clicked |-> 0,
        tried |-> <<"panel", "menuItems", "buttons", "moreActions">>]

AfterTranscriptSearch_TryEngagement(result) ==
  IF result = "clicked-more" THEN "popup"
  ELSE IF result = "true" THEN "dropdown" ELSE "engagement"

\* if (transcriptClicked === "clicked-more") {...} else if (!transcriptClicked) continue;
AfterTranscriptSearch(result) ==
  IF result = "clicked-more" THEN "popup"
  ELSE IF result = "true" THEN "dropdown" ELSE "skipped"

\* const transcriptClicked = await page.evaluate(...)
Transcript ==
  /\ pc = "transcript"
  /\ \E view \in TranscriptViews :
       LET r == TranscriptSearch(view)
           next == AfterTranscriptSearch(r.result) IN
         /\ cand' = IF next = "skipped"
                      THEN Skip([cand EXCEPT !.transcript = r.result], "transcript")
                      ELSE [cand EXCEPT !.transcript = r.result]
         /\ clickCount' = clickCount + Clicks(r.clicked)
         /\ tried' = r.tried
         /\ lastEval' = [step |-> "transcript", view |-> view, clicked |-> r.clicked,
                         by |-> r.by]
         /\ pc' = next
  /\ UNCHANGED <<idx, navigations>>
  /\ UNCHANGED <<collectorVars, runVars>>

IsTranscriptText(t) == Includes(t, "transcript") \/ Includes(t, "Transcript")

Popup_ThenEngagement ==
  /\ pc = "popup"
  /\ \E view \in PopupViews :
       LET k == FirstIndex(view, IsTranscriptText) IN
         /\ cand' = [cand EXCEPT !.popup = IF k > 0 THEN "true" ELSE "false"]
         /\ clickCount' = clickCount + Clicks(k)
         /\ lastEval' = Evaluated("popup", view, k)
         /\ pc' = "engagement"
  /\ tried' = Append(tried, "popup")
  /\ UNCHANGED <<idx, navigations>>
  /\ UNCHANGED <<collectorVars, runVars>>

\* const transcriptFound = await page.evaluate(...)
Popup ==
  /\ pc = "popup"
  /\ \E view \in PopupViews :
       LET k == FirstIndex(view, IsTranscriptText) IN
         /\ cand' = [cand EXCEPT !.popup = IF k > 0 THEN "true" ELSE "false"]
         /\ clickCount' = clickCount + Clicks(k)
         /\ lastEval' = Evaluated("popup", view, k)
         /\ pc' = IF k > 0 THEN "dropdown" ELSE "engagement"
  /\ tried' = Append(tried, "popup")
  /\ UNCHANGED <<idx, navigations>>
  /\ UNCHANGED <<collectorVars, runVars>>

\* const panelOpened = await page.evaluate(...); if (!panelOpened) continue;
Engagement ==
  /\ pc = "engagement"
  /\ \E view \in EngagementViews :
       LET k == IF Len(view) > 0 THEN 1 ELSE 0 IN
         /\ cand' = IF k > 0 THEN [cand EXCEPT !.engagement = "true"]
                    ELSE Skip([cand EXCEPT !.engagement = "false"], "engagement")
         /\ clickCount' = clickCount + Clicks(k)
         /\ lastEval' = Evaluated("engagement", view, k)
         /\ pc' = IF k > 0 THEN "dropdown" ELSE "skipped"
  /\ tried' = Append(tried, "engagement")
  /\ UNCHANGED <<idx, navigations>>
  /\ UNCHANGED <<collectorVars, runVars>>

MentionsLanguage(el) ==
  \/ Includes(el.text, "English")
  \/ Includes(el.text, "transcript")
  \/ Includes(el.text, "Transcript")
  \/ LowerIncludes(el.text, "auto")

DropdownStep_SkipsWithout ==
  /\ pc = "dropdown"
  /\ \E view \in DropdownViews :
       LET k == FirstBySelector(view, MentionsLanguage) IN
         /\ cand' = IF k > 0 THEN [cand EXCEPT !.dropdown = "dropdown-opened"]
                    ELSE Skip([cand EXCEPT !.dropdown = "no-dropdown-found"], "dropdown")
         /\ clickCount' = clickCount + Clicks(k)
         /\ lastEval' = Evaluated("dropdown", view, k)
         /\ pc' = IF k > 0 THEN "option" ELSE "skipped"
  /\ UNCHANGED <<idx, navigations, tried>>
  /\ UNCHANGED <<collectorVars, runVars>>

\* const autoTranscriptSelected = await page.evaluate(...)
DropdownStep ==
  /\ pc = "dropdown"
  /\ \E view \in DropdownViews :
       LET k == FirstBySelector(view, MentionsLanguage) IN
         /\ cand' = [cand EXCEPT !.dropdown =
                       IF k > 0 THEN "dropdown-opened" ELSE "no-dropdown-found"]
         /\ clickCount' = clickCount + Clicks(k)
         /\ lastEval' = Evaluated("dropdown", view, k)
         /\ pc' = IF k > 0 THEN "option" ELSE "parse"
  /\ UNCHANGED <<idx, navigations, tried>>
  /\ UNCHANGED <<collectorVars, runVars>>

\* autoGenOptions.some((opt) => itemText.includes(opt.toLowerCase()))
IsAutoGenerated(t) ==
  \E opt \in {"auto-generated", "english (auto-generated)", "auto"} : LowerIncludes(t, opt)

IsEnglish(t) == LowerIncludes(t, "english")

OptionChoice_EnglishFirst(view) ==
  IF FirstIndex(view, IsEnglish) > 0
    THEN [selected |-> "english", clicked |-> FirstIndex(view, IsEnglish)]
  ELSE IF FirstIndex(view, IsAutoGenerated) > 0
    THEN [selected |-> "auto", clicked |-> FirstIndex(view, IsAutoGenerated)]
  ELSE IF Len(view) > 0
    THEN [selected |-> "first", clicked |-> 1]
  ELSE [selected |-> "no-option-selected", clicked |-> 0]

\* the return value of const optionSelected = await page.evaluate(...) and the option clicked
OptionChoice(view) ==
  IF FirstIndex(view, IsAutoGenerated) > 0
    THEN [selected |-> "auto", clicked |-> FirstIndex(view, IsAutoGenerated)]
  ELSE IF FirstIndex(view, IsEnglish) > 0
    THEN [selected |-> "english", clicked |-> FirstIndex(view, IsEnglish)]
  ELSE IF Len(view) > 0
    THEN [selected |-> "first", clicked |-> 1]
  ELSE [selected |-> "no-option-selected", clicked |-> 0]

\* const optionSelected = await page.evaluate(...)
OptionStep ==
  /\ pc = "option"
  /\ \E view \in OptionViews :
       LET r == OptionChoice(view) IN
         /\ cand' = [cand EXCEPT !.option = r.selected]
         /\ clickCount' = clickCount + Clicks(r.clicked)
         /\ lastEval' = Evaluated("option", view, r.clicked)
  /\ pc' = "parse"
  /\ UNCHANGED <<idx, navigations, tried>>
  /\ UNCHANGED <<collectorVars, runVars>>

----------------------------------------------------------------------------
(* SegmentParser: lines 690-827 *)

\* an element found inside a segment container under the sel-th selector of a list
Sub(sel, text) == [sel |-> sel, text |-> text]

\* a segment container: the elements matching the timestamp selectors, those matching
\* the text selectors, and its textContent
Container(tsEls, txtEls, content) == [tsEls |-> tsEls, txtEls |-> txtEls, content |-> content]

\* an element of the page with the text of its nextElementSibling
Element(content, hasSibling, sibling) ==
  [content |-> content, hasSibling |-> hasSibling, sibling |-> sibling]

AnySub(el) == TRUE

\* timestampEl ? timestampEl.textContent.trim() : ""
SubText(els) ==
  IF FirstBySelector(els, AnySub) > 0 THEN Trim(els[FirstBySelector(els, AnySub)].text) ELSE ""

\* content.match(/^(\d+:\d+(?::\d+)?)\s*(.+)$/): the ends of group 1 that the
\* expression tries, in its order of preference (longest third number first, then no
\* third number, then shorter second numbers)
SplitEnds(content) ==
  LET d1 == DigitRun(content, 1)
      d2 == IF d1 > 0 /\ CharAt(content, d1 + 1) = ":" THEN DigitRun(content, d1 + 2) ELSE 0
      e2 == d1 + 1 + d2
      d3 == IF d2 > 0 /\ CharAt(content, e2 + 1) = ":" THEN DigitRun(content, e2 + 2) ELSE 0
  IN  IF d2 = 0 THEN << >>
      ELSE [k \in 1..d3 |-> e2 + 1 + (d3 - k + 1)] \o [k \in 1..d2 |-> d1 + 1 + (d2 - k + 1)]

\* group 2, (.+) after \s*: the rest without its leading blanks, or its last
\* character when the rest is blank
SplitText(rest) == IF Len(LeftTrim(rest)) > 0 THEN LeftTrim(rest) ELSE CharAt(rest, Len(rest))

RegexSplit(content) ==
  LET ends == SplitEnds(content)
      k == FirstIndex(ends, LAMBDA e : e < Len(content))
  IN  IF k = 0 THEN [matched |-> FALSE, timestamp |-> "", text |-> ""]
      ELSE [matched |-> TRUE,
            timestamp |-> SubSeq(content, 1, ends[k]),
            text |-> SplitText(SubSeq(content, ends[k] + 1, Len(content)))]

NeedsSplit_Neither(timestamp, text) == timestamp = "" /\ text = ""

\* (!timestamp || !text)
NeedsSplit(timestamp, text) == timestamp = "" \/ text = ""

\* the function mapped over the containers of one selector
ExtractSegment(segment) ==
  LET timestamp == SubText(segment.tsEls)
      text == SubText(segment.txtEls)
      split == RegexSplit(Trim(segment.content))
  IN  IF NeedsSplit(timestamp, text) /\ segment.content # "" /\ split.matched
        THEN [timestamp |-> split.timestamp, text |-> split.text]
        ELSE [timestamp |-> timestamp, text |-> text]

IsAccepted_TimestampOnly(s) == s.timestamp # ""

\* segments.filter((s) => s.timestamp && s.text)
IsAccepted(s) == s.timestamp # "" /\ s.text # ""

ExtractAll(elements) ==
  SelectSeq([i \in 1..Len(elements) |-> ExtractSegment(elements[i])], IsAccepted)

\* const segmentSelectors = [...] has four entries
NumSegmentSelectors == 4

\* the first list that is not empty, with its place (0: none)
FirstNonEmpty(lists) ==
  LET k == FirstIndex(lists, LAMBDA l : Len(l) > 0)
  IN  [segments |-> IF k = 0 THEN << >> ELSE lists[k], by |-> k]

\* for (const selector of segmentSelectors) {...}: the segments and the selector that
\* gave them (0: none); the loop breaks at the first selector with accepted segments
StructuralSegments(containers) ==
  FirstNonEmpty([i \in 1..NumSegmentSelectors |-> ExtractAll(containers[i])])

\* /^\d+:\d+(?::\d+)?$/.test(text)
IsTimestampShape(text) ==
  LET d1 == DigitRun(text, 1)
      d2 == IF d1 > 0 /\ CharAt(text, d1 + 1) = ":" THEN DigitRun(text, d1 + 2) ELSE 0
      e2 == d1 + 1 + d2
      d3 == IF d2 > 0 /\ CharAt(text, e2 + 1) = ":" THEN DigitRun(text, e2 + 2) ELSE 0
  IN  d2 > 0 /\ (e2 = Len(text) \/ (d3 > 0 /\ e2 + 1 + d3 = Len(text)))

IsAnchor(el) ==
  /\ IsTimestampShape(Trim(el.content)) /\ Len(Trim(el.content)) <= 8
  /\ el.hasSibling /\ Len(Trim(el.sibling)) > 0

\* the scan of document.querySelectorAll("*") for timestamps followed by a text
GenericSegments(all) ==
  LET anchors == SelectSeq(all, IsAnchor)
  IN  [i \in 1..Len(anchors) |->
         [timestamp |-> Trim(anchors[i].content), text |-> Trim(anchors[i].sibling)]]

\* the result of the scan, marked as found by the strategy after the selectors
GenericResult(generic) ==
  [segments |-> generic, by |-> IF Len(generic) > 0 THEN NumSegmentSelectors + 1 ELSE 0]

OrGeneric_Mixing(s, all) == [segments |-> s.segments \o GenericSegments(all), by |-> s.by]

\* if (segments.length === 0) { ... the scan of all elements ... }
OrGeneric(s, all) == IF Len(s.segments) = 0 THEN GenericResult(GenericSegments(all)) ELSE s

\* the body of const transcriptData = await page.evaluate(...)
ParseTranscript(view) == OrGeneric(StructuralSegments(view.containers), view.all)

PanelView(c1, c2, c3, c4, all) == [containers |-> <<c1, c2, c3, c4>>, all |-> all]

PanelViews ==
  { PanelView(<< >>, << >>, << >>, << >>, <<Element("Share", FALSE, "")>>),
    PanelView(<<Container(<<Sub(2, " 00:10 "), Sub(1, "0:10")>>, <<Sub(1, "an AI agent")>>,
                          "0:10 an AI agent"),
                Container(<<Sub(1, "0:20")>>, <<Sub(4, "agents of ai")>>, "0:20 agents of ai")>>,
              << >>, << >>, << >>,
              <<Element("0:10", TRUE, "an AI agent")>>),
    PanelView(<<Container(<<Sub(1, "0:07")>>, << >>, "0:07")>>,
              <<Container(<< >>, << >>, "1:05 no keyword"),
                Container(<<Sub(1, "0:30")>>, << >>, "0:02 ai")>>,
              << >>, << >>, << >>),
    PanelView(<< >>, << >>, <<Container(<< >>, << >>, "ai")>>, << >>,
              <<Element("0:30", TRUE, "ai, agent"), Element("ai, agent", FALSE, ""),
                Element("123456:07", TRUE, "ai"), Element("0:40", TRUE, " ")>>) }

Parse_GoesOn ==
  /\ pc = "parse"
  /\ \E view \in PanelViews : \E r \in {ParseTranscript(view)} :
         /\ cand' = [cand EXCEPT !.segments = r.segments]
         /\ lastEval' = [step |-> "parse", view |-> view, clicked |-> 0, strategy |-> r.by]
         /\ pc' = "title"
  /\ UNCHANGED <<idx, navigations, clickCount, tried>>
  /\ UNCHANGED <<collectorVars, runVars>>

\* const transcriptData = await page.evaluate(...); if (... length === 0) continue;
Parse ==
  /\ pc = "parse"
  /\ \E view \in PanelViews : \E r \in {ParseTranscript(view)} :
         /\ cand' = IF Len(r.segments) = 0 THEN Skip(cand, "parse")
                    ELSE [cand EXCEPT !.segments = r.segments]
         /\ lastEval' = [step |-> "parse", view |-> view, clicked |-> 0, strategy |-> r.by]
         /\ pc' = IF Len(r.segments) = 0 THEN "skipped" ELSE "title"
  /\ UNCHANGED <<idx, navigations, clickCount, tried>>
  /\ UNCHANGED <<collectorVars, runVars>>

\* the first of h1 yt-formatted-string, h1, .title on the page: watch pages carry an h1
TitleViews == { [found |-> TRUE, text |-> " Video "] }

\* const videoTitle = await page.evaluate(...)
Title ==
  /\ pc = "title"
  /\ \E view \in TitleViews :
       /\ cand' = [cand EXCEPT !.title = IF view.found THEN Trim(view.text) ELSE "Unknown Title"]
       /\ lastEval' = Evaluated("title", view, 0)
  /\ pc' = "match"
  /\ UNCHANGED <<idx, navigations, clickCount, tried>>
  /\ UNCHANGED <<collectorVars, runVars>>

----------------------------------------------------------------------------
(* KeywordTimeMatcher: lines 856-963 *)

\* keywordRegex.test(segmentText) for the expression
\* (^|[^a-zA-Z0-9])<keyword, escaped>([^a-zA-Z0-9]|$) with flag i
WordBoundaryFound(segmentText, keywordLower) ==
  \E p \in 0..(Len(segmentText) - Len(keywordLower)) :
     /\ ToLowerCase(SubSeq(segmentText, p + 1, p + Len(keywordLower))) = keywordLower
     /\ p = 0 \/ ~IsAlphaNumeric(CharAt(segmentText, p))
     /\ \/ p + Len(keywordLower) = Len(segmentText)
        \/ ~IsAlphaNumeric(CharAt(segmentText, p + Len(keywordLower) + 1))

keywordFound_Always(segmentText, keywordLower, exact) == TRUE

keywordFound_AlwaysExact(segmentText, keywordLower, exact) ==
  StringIncludes(segmentText, keywordLower)

\* if (exactPhraseSearch) segmentText.includes(keywordLower) else keywordRegex.test(segmentText)
keywordFound(segmentText, keywordLower, exact) ==
  IF exact THEN StringIncludes(segmentText, keywordLower)
  ELSE WordBoundaryFound(segmentText, keywordLower)

EndTimeSeconds_AlwaysFive(segments, i) == Plus(timestampToSeconds(segments[i].timestamp), 5)

\* endTimeSeconds of segment i
EndTimeSeconds(segments, i) ==
  IF i < Len(segments) THEN timestampToSeconds(segments[i + 1].timestamp)
  ELSE Plus(timestampToSeconds(segments[i].timestamp), 5)

PreciseTimeSeconds_Backwards(start, position, duration) ==
  IF IsNaN(start) \/ IsNaN(duration) \/ position.den = 0 THEN NaN
  ELSE RoundQuotient(start * position.den - position.num * duration, position.den)

PreciseTimeSeconds_Truncated(start, position, duration) ==
  IF IsNaN(start) \/ IsNaN(duration) \/ position.den = 0 THEN NaN
  ELSE (start * position.den + position.num * duration) \div position.den

\* Math.round(startTimeSeconds + keywordPosition * segmentDuration)
PreciseTimeSeconds(start, position, duration) ==
  IF IsNaN(start) \/ IsNaN(duration) \/ position.den = 0 THEN NaN
  ELSE RoundQuotient(start * position.den + position.num * duration, position.den)

\* the object pushed to keywordMatches
MatchOf(segments, i, keyword, url) ==
  LET start == timestampToSeconds(segments[i].timestamp)
      duration == Minus(EndTimeSeconds(segments, i), start)
      precise == PreciseTimeSeconds(start, estimateKeywordPosition(segments[i].text, keyword),
                                    duration)
  IN  [keyword |-> keyword,
       originalTimestamp |-> segments[i].timestamp,
       preciseTimestamp |-> secondsToTimestamp(precise),
       preciseTimeSeconds |-> precise,
       text |-> segments[i].text,
       url |-> [video |-> url, t |-> precise]]

\* for (const keyword of keywords) {...} for segment i, from keyword k on
RECURSIVE SegmentMatches(_, _, _, _, _, _)
SegmentMatches(segments, i, kws, k, exact, url) ==
  IF k > Len(kws) THEN << >>
  ELSE (IF keywordFound(ToLowerCase(segments[i].text), ToLowerCase(kws[k]), exact)
          THEN <<MatchOf(segments, i, kws[k], url)>> ELSE << >>)
       \o SegmentMatches(segments, i, kws, k + 1, exact, url)

\* for (let i = 0; i < transcriptData.segments.length; i++) {...}, from segment i on
RECURSIVE KeywordMatches(_, _, _, _, _)
KeywordMatches(segments, i, kws, exact, url) ==
  IF i > Len(segments) THEN << >>
  ELSE SegmentMatches(segments, i, kws, 1, exact, url)
       \o KeywordMatches(segments, i + 1, kws, exact, url)

MatchKey_WithKeyword(m) == <<m.preciseTimeSeconds, m.text, m.keyword>>

\* const key = `${match.preciseTimeSeconds}:${match.text}`
MatchKey(m) == <<m.preciseTimeSeconds, m.text>>

\* for (const match of keywordMatches) {...}, from match k on
RECURSIVE UniqueMatches(_, _, _)
UniqueMatches(matches, k, kept) ==
  IF k > Len(matches) THEN kept
  ELSE UniqueMatches(matches, k + 1,
                     IF \E j \in 1..Len(kept) : MatchKey(kept[j]) = MatchKey(matches[k])
                       THEN kept ELSE Append(kept, matches[k]))

\* new URL(videoUrl).searchParams.get("v") || videoUrl.split("/").pop()
VideoIdOf(url) == IF IsWatch(url) THEN <<"v", url>> ELSE <<"path", url>>

PushResult_Always(results, url, title, matches) ==
  Append(results, [videoId |-> VideoIdOf(url), videoTitle |-> title, url |-> url,
                   matches |-> matches])

PushResult_Prepend(results, url, title, matches) ==
  IF Len(matches) > 0
    THEN <<[videoId |-> VideoIdOf(url), videoTitle |-> title, url |-> url,
            matches |-> matches]>> \o results
    ELSE results

\* if (uniqueMatches.length > 0) { transcriptResults.push({...}) }
PushResult(results, url, title, matches) ==
  IF Len(matches) > 0
    THEN Append(results, [videoId |-> VideoIdOf(url), videoTitle |-> title, url |-> url,
                          matches |-> matches])
    ELSE results

\* the keyword loops, the removal of duplicates and the push: lines 856-963
Match ==
  /\ pc = "match"
  /\ LET found == KeywordMatches(cand.segments, 1, keywords, exactPhraseSearch, videoUrl)
         unique == UniqueMatches(found, 1, << >>)
     IN  /\ cand' = [cand EXCEPT !.matches = unique]
         /\ transcriptResults' = PushResult(transcriptResults, videoUrl, cand.title, unique)
  /\ lastEval' = NoEval
  /\ pc' = "extracted"
  /\ UNCHANGED <<idx, navigations, clickCount, tried>>
  /\ UNCHANGED <<collectorVars, browser, fatal, saved, keywords, exactPhraseSearch>>

CandidateThrows_Propagates ==
  /\ pc \in CandidateSteps
  /\ fatal' = TRUE
  /\ pc' = "close"
  /\ UNCHANGED <<collectorVars, candVars, browser, saved, keywords, exactPhraseSearch,
                 transcriptResults>>

CandidateThrows_LeavesPartial ==
  /\ pc \in CandidateSteps
  /\ cand' = Skip([cand EXCEPT !.error = TRUE], pc)
  /\ transcriptResults' = PushResult_Always(transcriptResults, videoUrl, cand.title, << >>)
  /\ lastEval' = NoEval
  /\ pc' = "skipped"
  /\ UNCHANGED <<idx, navigations, clickCount, tried>>
  /\ UNCHANGED <<collectorVars, browser, fatal, saved, keywords, exactPhraseSearch>>

\* an awaited call of the loop body rejects, or a statement of it throws: the catch
\* block logs the error and the loop goes on
CandidateThrows ==
  /\ pc \in CandidateSteps
  /\ cand' = Skip([cand EXCEPT !.error = TRUE], pc)
  /\ lastEval' = NoEval
  /\ pc' = "skipped"
  /\ UNCHANGED <<idx, navigations, clickCount, tried>>
  /\ UNCHANGED <<collectorVars, runVars>>

\* the next turn of for (const videoUrl of videoLinks)
NextCandidate ==
  /\ pc \in {"skipped", "extracted"}
  /\ LoopTo(idx + 1)
  /\ UNCHANGED <<collectorVars, runVars>>

----------------------------------------------------------------------------
(* The run: lines 88-1004 *)

NoBrowserFound_GoesOn ==
  /\ pc = "start"
  /\ pc' = "search"
  /\ UNCHANGED <<collectorVars, runVars, candVars>>

\* findChromePath() returned null: the errors are logged and the function returns
NoBrowserFound ==
  /\ pc = "start"
  /\ pc' = "aborted"
  /\ UNCHANGED <<collectorVars, runVars, candVars>>

\* const browser = await puppeteer.launch(...)
Launch ==
  /\ pc = "start"
  /\ browser' = "open"
  /\ pc' = "search"
  /\ UNCHANGED <<collectorVars, candVars, fatal, saved, keywords, exactPhraseSearch,
                 transcriptResults>>

\* browser.newPage() ... await page.goto(search URL)
Search ==
  /\ pc = "search"
  /\ pc' = "query"
  /\ UNCHANGED <<collectorVars, runVars, candVars>>

FatalError_NoClose ==
  /\ pc \in {"search", "query", "loop"}
  /\ fatal' = TRUE
  /\ pc' = "done"
  /\ UNCHANGED <<collectorVars, candVars, browser, saved, keywords, exactPhraseSearch,
                 transcriptResults>>

\* an awaited call outside the loop body rejects: catch (error) "Fatal error:"
FatalError ==
  /\ pc \in {"search", "query", "loop"}
  /\ fatal' = TRUE
  /\ pc' = "close"
  /\ UNCHANGED <<collectorVars, candVars, browser, saved, keywords, exactPhraseSearch,
                 transcriptResults>>

\* const transcriptResults = []; and the first turn of the loop
StartCandidates ==
  /\ pc = "collected"
  /\ transcriptResults' = << >>
  /\ LoopTo(1)
  /\ UNCHANGED <<collectorVars, browser, fatal, saved, keywords, exactPhraseSearch>>

Save_Again ==
  /\ pc = "save"
  /\ \/ /\ Len(transcriptResults) > 0
        /\ \E written \in BOOLEAN :
             /\ saved' = IF written THEN Append(saved, transcriptResults) ELSE saved
             /\ pc' = IF written /\ Len(saved) = 0 THEN "save" ELSE "close"
     \/ /\ Len(transcriptResults) = 0
        /\ UNCHANGED saved
        /\ pc' = "close"
  /\ UNCHANGED <<collectorVars, candVars, browser, fatal, keywords, exactPhraseSearch,
                 transcriptResults>>

Save_FailureIsFatal ==
  /\ pc = "save"
  /\ \/ /\ Len(transcriptResults) > 0
        /\ \E written \in BOOLEAN :
             /\ saved' = IF written THEN Append(saved, transcriptResults) ELSE saved
             /\ fatal' = ~written
     \/ /\ Len(transcriptResults) = 0
        /\ UNCHANGED <<saved, fatal>>
  /\ pc' = "close"
  /\ UNCHANGED <<collectorVars, candVars, browser, keywords, exactPhraseSearch,
                 transcriptResults>>

Save_WritesEmpty ==
  /\ pc = "save"
  /\ \E written \in BOOLEAN :
       saved' = IF written THEN Append(saved, transcriptResults) ELSE saved
  /\ pc' = "close"
  /\ UNCHANGED <<collectorVars, candVars, browser, fatal, keywords, exactPhraseSearch,
                 transcriptResults>>

\* if (transcriptResults.length > 0) { try { ... writeFileSync ... } catch ... } else ...
Save ==
  /\ pc = "save"
  /\ \/ /\ Len(transcriptResults) > 0
        /\ \E written \in BOOLEAN :
             saved' = IF written THEN Append(saved, transcriptResults) ELSE saved
     \/ /\ Len(transcriptResults) = 0
        /\ UNCHANGED saved
  /\ pc' = "close"
  /\ UNCHANGED <<collectorVars, candVars, browser, fatal, keywords, exactPhraseSearch,
                 transcriptResults>>

\* finally { await browser.close(); }
Close ==
  /\ pc = "close"
  /\ browser' = "closed"
  /\ pc' = "done"
  /\ UNCHANGED <<collectorVars, candVars, fatal, saved, keywords, exactPhraseSearch,
                 transcriptResults>>

\* what the run has written to the console outside the loops: the error of the missing
\* browser, the outcome of the save, the fatal error and the closing of the browser
RunMessages ==
  (IF pc = "aborted"
     THEN {"ERROR: Could not find Chrome or Chromium on your system."} ELSE {})
  \cup (IF pc \in {"close", "done"}
          THEN IF fatal THEN {"Fatal error:"}
               ELSE IF Len(transcriptResults) = 0
                 THEN {"No keyword matches found in any videos"}
               ELSE IF Len(saved) > 0 THEN {"Results saved to"}
               ELSE {"Error saving results:"}
          ELSE {})
  \cup (IF pc = "done" THEN {"Browser closed"} ELSE {})

RunStart ==
  /\ browser = "none"
  /\ fatal = FALSE
  /\ saved = << >>
  /\ transcriptResults = << >>
  /\ idx = 0
  /\ cand = CleanCand
  /\ navigations = 0
  /\ clickCount = 0
  /\ tried = << >>
  /\ lastEval = NoEval

\* command lines: two keywords in the default mode, one keyword with the word exact
CommandLines ==
  { [keywords |-> <<"ai", "AI agent">>, exact |-> FALSE],
    [keywords |-> <<"agent">>, exact |-> TRUE] }

\* listings that show the same n videos, each linked twice, at every query
RunSources ==
  {SourceOf([w |-> 2, inv |-> 2, later |-> FALSE], {2 * n}, {"paired"}) : n \in 0..MaxVideos}

Init ==
  /\ pc = "start"
  /\ \E src \in RunSources : CollectorStart(src)
  /\ RunStart
  /\ \E args \in CommandLines :
       /\ keywords = args.keywords
       /\ exactPhraseSearch = args.exact

Next ==
  \/ NoBrowserFound \/ Launch \/ Search \/ FatalError
  \/ InitialQuery \/ ScrollIteration \/ FinishCollect
  \/ StartCandidates \/ Goto \/ Consent \/ Direct \/ Shorts \/ More \/ AnyButton
  \/ Transcript \/ Popup \/ Engagement \/ DropdownStep \/ OptionStep
  \/ Parse \/ Title \/ Match \/ CandidateThrows \/ NextCandidate
  \/ Save \/ Close

Spec == Init /\ [][Next]_vars

\* the run when every awaited call settles: the browser is closed when the finally
\* block is reached, and the run takes steps until it has returned (a step of Next
\* can be taken in every state but those of a run that has returned)
SpecLive ==
  /\ Init /\ [][Next]_vars
  /\ WF_vars(Close)
  /\ ([]<><<Next>>_vars \/ <>[](pc \in {"done", "aborted"}))

\* listings of every layout with a short list, and listings whose first selector
\* carries a list of a size around the target
CollectorSources ==
  {SourceOf(l, SmallSizes, {"mixed"}) : l \in Layouts}
    \cup {SourceOf([w |-> 1, inv |-> 0, later |-> FALSE], BigSizes, ps) :
            ps \in {{"distinct", "paired"}, {"resurface", "mixed"}}}

\* the collector alone
InitCollector ==
  /\ pc = "query"
  /\ \E src \in CollectorSources : CollectorStart(src)
  /\ RunStart
  /\ keywords = <<"agent">>
  /\ exactPhraseSearch = FALSE

NextCollector == InitialQuery \/ ScrollIteration \/ FinishCollect

SpecCollector == InitCollector /\ [][NextCollector]_vars

\* the longest transcript given to the keyword loops alone
MaxSegments == 2

Segment(timestamp, text) == [timestamp |-> timestamp, text |-> text]

\* segments as the parsing returns them: both strings trimmed and not empty
MatcherSegments ==
  { Segment("00:10", "the quick agent runs"),
    Segment("00:20", "Agent"),
    Segment("00:20", "a gent, an AI agent"),
    Segment("0:05", "ai"),
    Segment("1:00:05", "rate a.i, a1i"),
    Segment("1:xx", "agent"),
    Segment("7", "AI agent ai"),
    Segment("00:00", "no keyword here"),
    Segment("00:30", "agents and agent") }

Transcripts(n) == UNION {[1..m -> MatcherSegments] : m \in 1..n}

MatcherCommandLines ==
  [keywords : {<<"agent">>, <<"gent">>, <<"ai", "AI agent">>, <<"agent", "Agent">>, <<"a.i">>},
   exact : BOOLEAN]

\* the run at the keyword loops of the only video of a listing, its transcript parsed
\* and its title read
MatcherStart(segments) ==
  /\ source = SourceOf([w |-> 1, inv |-> 0, later |-> FALSE], {1}, {"distinct"})
  /\ dom = DomOf(source, 1, "distinct")
  /\ videoElements = Listing(1, "distinct")
  /\ evaluated = <<1>>
  /\ initialElements = videoElements
  /\ sourceStatic = TRUE
  /\ previousLength = 1
  /\ scrollAttempts = maxConsecutiveNoChanges
  /\ consecutiveNoChangeCount = maxConsecutiveNoChanges
  /\ scrollCalls = 2 * maxConsecutiveNoChanges
  /\ stopReason = "stability"
  /\ videoLinks = uniqueLinks(videoElements)
  /\ browser = "open"
  /\ fatal = FALSE
  /\ saved = << >>
  /\ transcriptResults = << >>
  /\ idx = 1
  /\ cand = [CleanCand EXCEPT !.accept = "false", !.direct = "true", !.transcript = "true",
                              !.dropdown = "no-dropdown-found", !.segments = segments,
                              !.title = "Video"]
  /\ navigations = 1
  /\ clickCount = 1
  /\ tried = <<"panel">>
  /\ lastEval = Evaluated("title", [found |-> TRUE, text |-> " Video "], 0)

\* the keyword loops alone, over transcripts of up to MaxSegments segments
InitMatcher ==
  /\ pc = "match"
  /\ \E segments \in Transcripts(MaxSegments) : MatcherStart(segments)
  /\ \E args \in MatcherCommandLines :
       /\ keywords = args.keywords
       /\ exactPhraseSearch = args.exact

NextMatcher == Match \/ NextCandidate \/ Save \/ Close

SpecMatcher == InitMatcher /\ [][NextMatcher]_vars

\* the seconds up to which every timestamp is given to the keyword loops
MaxSeconds == 70

\* every second up to MaxSeconds, and seconds around one hour and a hundred hours
CodecSeconds == 0..MaxSeconds \cup {3599, 3600, 7325, 359999, 360000}

\* timestamps as a panel may show them, well formed or not
CodecTimestamps ==
  {"1:02:03", "02:03", "0:5", "7", "garbage", "1:2:3:4", "1:xx", "xx:05", "1:xx:03"}

\* the keyword loops alone, over one segment whose text starts with the keyword: the
\* second of the match is the start of the segment
InitCodec ==
  /\ pc = "match"
  /\ \E timestamp \in {secondsToTimestamp(s) : s \in CodecSeconds} \cup CodecTimestamps :
       MatcherStart(<<Segment(timestamp, "ai")>>)
  /\ keywords = <<"ai">>
  /\ exactPhraseSearch \in BOOLEAN

SpecCodec == InitCodec /\ [][NextMatcher]_vars

----------------------------------------------------------------------------
(* Properties of the collector *)

Range(s) == {s[k] : k \in 1..Len(s)}
NoDuplicates(s) == \A i, j \in 1..Len(s) : i # j => s[i] # s[j]
Positions(s, x) == {k \in 1..Len(s) : s[k] = x}
FirstPosition(s, x) == CHOOSE k \in Positions(s, x) : \A j \in Positions(s, x) : k <= j
Filtered(s) == SelectSeq(s, IsValidElement)

\* C2: the counters never pass their ceilings, an iteration has only been run from a
\* set smaller than the target, and after the loop one of the three stop conditions holds
C2_LoopBounds ==
  /\ scrollAttempts <= maxScrollAttempts
  /\ consecutiveNoChangeCount <= maxConsecutiveNoChanges
  /\ scrollAttempts > 0 => previousLength < TargetCount
  /\ pc = "collected" =>
       /\ \/ Len(videoElements) >= TargetCount
          \/ scrollAttempts >= maxScrollAttempts
          \/ consecutiveNoChangeCount >= maxConsecutiveNoChanges
       /\ stopReason \in {"target", "attempts", "stability"}

C2_Witness == pc = "collected" /\ stopReason = "attempts" /\ scrollAttempts = maxScrollAttempts

\* C3: a collector that stopped because the target was reached returns exactly
\* TargetCount links, all distinct, in the order of their first occurrence
C3_TargetReachedReturnsTarget ==
  (pc = "collected" /\ stopReason = "target") =>
     /\ Len(videoLinks) = TargetCount
     /\ NoDuplicates(videoLinks)

C5_OutputShape ==
  pc = "collected" =>
     /\ Len(videoLinks) <= TargetCount
     /\ NoDuplicates(videoLinks)
     /\ \A k \in 1..Len(videoLinks) : Contains(videoElements, videoLinks[k])
     /\ \A k \in 1..(Len(videoLinks) - 1) :
          FirstPosition(videoElements, videoLinks[k])
            < FirstPosition(videoElements, videoLinks[k + 1])

C5_Witness ==
  /\ pc = "collected"
  /\ Len(videoLinks) = TargetCount
  /\ ~NoDuplicates(videoElements)
  /\ Cardinality(Range(videoElements)) > TargetCount

\* C6: when the query made before the loop already returns TargetCount items, no
\* iteration runs: nothing is scrolled and scrollAttempts stays 0
C6_NoIterationWhenTargetMet ==
  (pc \in {"loop", "collected"} /\ Len(initialElements) >= TargetCount) =>
     /\ scrollAttempts = 0
     /\ scrollCalls = 0
     /\ videoElements = initialElements

C6_Witness == pc = "collected" /\ Len(initialElements) >= TargetCount /\ scrollAttempts = 0

\* C7: the selectors queried are 1, 2, ... in order up to the first one whose filtered
\* set is non-empty; that filtered set is the result; a selector whose elements are
\* all rejected by the filter does not end the cascade; when no selector has a
\* non-empty filtered set all were queried and the result is empty
C7_CascadeFirstNonEmpty ==
  pc # "query" =>
     LET k == Len(evaluated) IN
       /\ k >= 1 /\ k <= NumSelectors
       /\ \A i \in 1..k : evaluated[i] = i
       /\ \A i \in 1..(k - 1) : Filtered(dom[i]) = << >>
       /\ videoElements = Filtered(dom[k])
       /\ videoElements = << >> => k = NumSelectors

C7_Witness ==
  /\ pc # "query"
  /\ evaluated = <<1, 2, 3>>
  /\ dom[1] # << >> /\ dom[2] = << >>
  /\ dom[4] # << >>
  /\ videoElements # << >>

----------------------------------------------------------------------------
(* Properties of the steps of one video *)

Matching(s, Test(_)) == {i \in 1..Len(s) : Test(s[i])}
IsLeast(k, S) == k \in S /\ \A j \in S : k <= j

\* C1: while a video is processed nothing reaches the handler of the run and the
\* results are not touched by a failure: a step that throws, at whatever stage, and a
\* step that gives up leave the video skipped; from a skipped video the loop goes to
\* the next link of the list, or to the end of the list, with every per-video value
\* reset and the results as they were
C1_FailureEndsOnlyCandidate ==
  [][ /\ pc \in CandidateSteps =>
           /\ fatal' = FALSE
           /\ idx' = idx
           /\ pc' \in CandidateSteps \cup {"skipped", "extracted"}
           /\ (cand'.error \/ cand'.skippedAt # "none") =>
                 /\ pc' = "skipped"
                 /\ cand'.skippedAt = pc
                 /\ transcriptResults' = transcriptResults
      /\ pc = "skipped" =>
           /\ fatal' = FALSE
           /\ transcriptResults' = transcriptResults
           /\ idx' = idx + 1
           /\ cand' = CleanCand
           /\ clickCount' = 0 /\ navigations' = 0 /\ tried' = << >>
           /\ pc' = IF idx < Len(videoLinks) THEN "goto" ELSE "save"
           /\ pc' = "goto" => videoLinks[idx'] = videoLinks[idx + 1]
    ]_vars

C1_Witness ==
  /\ pc = "skipped" /\ cand.error /\ cand.skippedAt = "match"
  /\ cand.segments # << >> /\ cand.accept = "true"
  /\ idx = 1 /\ Len(videoLinks) > 1
  /\ ~fatal

\* C8: the direct search runs after the consent check and before any control of the
\* menu cascade is clicked; when it finds visible elements naming the transcript it
\* clicks the first of them and the video goes to the transcript option without the
\* cascade; the cascade runs only when the direct search found nothing
C8_DirectBeforeMenu ==
  /\ pc = "direct" => (cand.accept # "unset" /\ cand.menu = "unset")
  /\ cand.direct # "unset" => cand.accept # "unset"
  /\ (cand.menu # "unset" \/ pc \in {"shorts", "more", "anyButton"}) => cand.direct = "false"
  /\ lastEval.step = "direct" =>
       IF Matching(lastEval.view, IsTranscriptLabel) # {}
         THEN /\ IsLeast(lastEval.clicked, Matching(lastEval.view, IsTranscriptLabel))
              /\ cand.direct = "true" /\ cand.menu = "unset"
              /\ pc = "transcript"
         ELSE /\ lastEval.clicked = 0
              /\ cand.direct = "false"
              /\ pc = IF IsShorts(videoUrl) THEN "shorts" ELSE "more"

C8_Witness ==
  /\ lastEval.step = "direct" /\ lastEval.clicked = 3
  /\ Cardinality(Matching(lastEval.view, IsTranscriptLabel)) = 1
  /\ pc = "transcript" /\ cand.menu = "unset"
  /\ IsShorts(videoUrl)

\* C9: a video is skipped by the search for the transcript option only after the
\* panel check, the menu items, the buttons, the "more actions" control with its
\* popup and the engagement panel control have all been tried, in this order
C9_SkipOnlyAfterEngagement ==
  (pc = "skipped" /\ ~cand.error /\ cand.skippedAt \in {"transcript", "engagement"}) =>
     tried = <<"panel", "menuItems", "buttons", "moreActions", "popup", "engagement">>

\* C10: when the transcript panel is already on the page the search for the
\* transcript option returns true without a click and the video goes on to the
\* selection of the language
C10_PanelShortCircuit ==
  [][ (pc = "transcript" /\ lastEval'.step = "transcript" /\ lastEval'.view.panel) =>
        /\ lastEval'.clicked = 0
        /\ clickCount' = clickCount
        /\ cand'.transcript = "true"
        /\ cand'.skippedAt = "none"
        /\ pc' = "dropdown"
    ]_vars

C10_Witness ==
  /\ lastEval.step = "transcript" /\ lastEval.view.panel
  /\ Matching(lastEval.view.menuItems, IsTranscriptMenuItem) # {}
  /\ pc = "dropdown"
  /\ cand.accept = "false" /\ cand.direct = "true" /\ clickCount = 1

\* C11: on a shorts page where the direct search found nothing, a menu search that
\* finds no button with an icon skips the video at once: nothing is clicked, the
\* fallbacks of the regular page and every later step are left out
C11_ShortsSkipAtOnce ==
  /\ [](pc = "shorts" => (IsShorts(videoUrl) /\ cand.direct = "false"))
  /\ []((cand.skippedAt = "shorts" /\ ~cand.error) =>
          /\ pc = "skipped"
          /\ cand.menu = "false" /\ cand.transcript = "unset" /\ cand.popup = "unset"
          /\ cand.engagement = "unset" /\ cand.dropdown = "unset" /\ cand.option = "unset"
          /\ cand.segments = << >> /\ cand.matches = << >>)
  /\ [][ (pc = "shorts" /\ lastEval'.step = "shorts"
            /\ Matching(lastEval'.view, HasIconChild) = {}) =>
           /\ pc' = "skipped"
           /\ cand'.skippedAt = "shorts"
           /\ lastEval'.clicked = 0
           /\ clickCount' = clickCount
           /\ transcriptResults' = transcriptResults
     ]_vars

C11_Witness ==
  /\ pc = "skipped" /\ cand.skippedAt = "shorts" /\ ~cand.error
  /\ lastEval.step = "shorts" /\ Len(lastEval.view) > 0
  /\ IsShorts(videoUrl)

\* the buttons found under one of the "more actions" selectors that carry an icon and
\* a label with "More"
MoreCandidates(view) == {k \in 1..Len(view) : view[k].sel >= 1 /\ LooksLikeMoreActions(view[k])}

\* C12: on a regular page the "more actions" selectors come first, then any visible
\* button with an icon, then the last visible button larger than 20x20; a later
\* fallback runs only when the earlier ones found nothing; a success clicks exactly
\* one button and leads to the wait for the menu; the video is skipped only when
\* all three found nothing
C12_StandardFallbacks ==
  /\ [](pc \in {"more", "anyButton"} => (~IsShorts(videoUrl) /\ cand.direct = "false"))
  /\ [](pc = "anyButton" => cand.menu = "false")
  /\ [](cand.skippedAt = "more" => cand.error)
  /\ [][ /\ (pc = "more" /\ lastEval'.step = "more") =>
             LET view == lastEval'.view
                 k == lastEval'.clicked
             IN  IF MoreCandidates(view) # {}
                   THEN /\ k \in MoreCandidates(view)
                        /\ \A j \in MoreCandidates(view) :
                              view[k].sel < view[j].sel \/ (view[k].sel = view[j].sel /\ k <= j)
                        /\ clickCount' = clickCount + 1
                        /\ pc' = "transcript"
                 ELSE IF Matching(view, IsVisibleIconButton) # {}
                   THEN /\ IsLeast(k, Matching(view, IsVisibleIconButton))
                        /\ clickCount' = clickCount + 1
                        /\ pc' = "transcript"
                 ELSE /\ k = 0
                      /\ clickCount' = clickCount
                      /\ pc' = "anyButton"
          /\ (pc = "anyButton" /\ lastEval'.step = "anyButton") =>
             LET buttons == lastEval'.view
                 last == lastEval'.clicked
             IN  IF Matching(buttons, IsPotentialMenuButton) # {}
                   THEN /\ last \in Matching(buttons, IsPotentialMenuButton)
                        /\ \A j \in Matching(buttons, IsPotentialMenuButton) : j <= last
                        /\ clickCount' = clickCount + 1
                        /\ pc' = "transcript"
                 ELSE /\ last = 0
                      /\ clickCount' = clickCount
                      /\ pc' = "skipped" /\ cand'.skippedAt = "anyButton"
     ]_vars

C12_Witness ==
  /\ lastEval.step = "anyButton" /\ lastEval.clicked = 4 /\ Len(lastEval.view) = 5
  /\ pc = "transcript" /\ cand.menu = "anyButton"
  /\ clickCount = 1

\* C13: after the dropdown was opened the option clicked is the first whose text
\* matches an auto-generated pattern, else the first whose text contains "english",
\* else the first of the list; exactly one option is clicked when the list is not
\* empty and none when it is
C13_OptionPrecedence ==
  /\ []((pc = "option" \/ cand.option # "unset") => cand.dropdown = "dropdown-opened")
  /\ [][ (pc = "option" /\ lastEval'.step = "option") =>
           LET view == lastEval'.view
               k == lastEval'.clicked
           IN  /\ clickCount' = clickCount + (IF Len(view) > 0 THEN 1 ELSE 0)
               /\ pc' = "parse"
               /\ IF Matching(view, IsAutoGenerated) # {}
                    THEN IsLeast(k, Matching(view, IsAutoGenerated)) /\ cand'.option = "auto"
                  ELSE IF Matching(view, IsEnglish) # {}
                    THEN IsLeast(k, Matching(view, IsEnglish)) /\ cand'.option = "english"
                  ELSE IF Len(view) > 0
                    THEN k = 1 /\ cand'.option = "first"
                  ELSE k = 0 /\ cand'.option = "no-option-selected"
     ]_vars

C13_Witness ==
  /\ lastEval.step = "option" /\ lastEval.clicked = 3
  /\ IsLeast(2, Matching(lastEval.view, IsEnglish))
  /\ cand.option = "auto" /\ pc = "parse"

\* the elements found under one of the dropdown selectors whose text has "English",
\* "transcript", "Transcript" or, in lower case, "auto"
DropdownCandidates(view) == {k \in 1..Len(view) : view[k].sel >= 1 /\ MentionsLanguage(view[k])}

\* C14: when no dropdown element with such a text is found nothing is clicked by the
\* selection of the language, no option is looked for and the video goes on to the
\* parsing of the segments; the selection of the language never skips a video
C14_NoDropdownGoesOn ==
  /\ [](cand.skippedAt \in {"dropdown", "option"} => cand.error)
  /\ [](cand.dropdown = "no-dropdown-found" => (cand.option = "unset" /\ pc # "option"))
  /\ [][ (pc = "dropdown" /\ lastEval'.step = "dropdown"
            /\ DropdownCandidates(lastEval'.view) = {}) =>
           /\ lastEval'.clicked = 0
           /\ clickCount' = clickCount
           /\ cand'.dropdown = "no-dropdown-found"
           /\ cand'.option = "unset"
           /\ cand'.skippedAt = "none"
           /\ pc' = "parse"
     ]_vars

C14_Witness ==
  /\ lastEval.step = "dropdown" /\ lastEval.clicked = 0 /\ Len(lastEval.view) > 0
  /\ cand.dropdown = "no-dropdown-found"
  /\ pc = "parse"

\* C15: a video whose parsing gives no segment is skipped: the title is not read,
\* the keywords are not looked for and nothing is appended to the results for it
C15_NoSegmentsSkips ==
  /\ [](pc \in {"title", "match", "extracted"} => Len(cand.segments) > 0)
  /\ []((cand.skippedAt = "parse" /\ ~cand.error) =>
           /\ pc = "skipped"
           /\ cand.segments = << >> /\ cand.title = "unset" /\ cand.matches = << >>)
  /\ [][ (pc = "parse" /\ lastEval'.step = "parse") =>
           IF Len(ParseTranscript(lastEval'.view).segments) = 0
             THEN /\ pc' = "skipped" /\ cand'.skippedAt = "parse"
                  /\ transcriptResults' = transcriptResults
             ELSE /\ pc' = "title" /\ cand'.skippedAt = "none"
                  /\ cand'.segments = ParseTranscript(lastEval'.view).segments
     ]_vars
  /\ [][ (pc = "skipped" /\ cand.skippedAt = "parse") =>
           (transcriptResults' = transcriptResults /\ pc' \in {"goto", "save"}) ]_vars

C15_Witness ==
  /\ pc = "skipped" /\ cand.skippedAt = "parse" /\ ~cand.error
  /\ lastEval.step = "parse" /\ Len(lastEval.view.all) > 0
  /\ cand.dropdown = "dropdown-opened"

----------------------------------------------------------------------------
(* Properties of the keyword loops *)

\* the start of segment i, the start of the next segment or 5 seconds later, and the
\* place of a keyword in its text
StartOf(i) == timestampToSeconds(cand.segments[i].timestamp)
EndOf(i) ==
  IF i < Len(cand.segments) THEN timestampToSeconds(cand.segments[i + 1].timestamp)
  ELSE Plus(StartOf(i), 5)
DurationOf(i) == Minus(EndOf(i), StartOf(i))
OccurrenceIndex(i, k) == IndexOf(ToLowerCase(cand.segments[i].text), ToLowerCase(keywords[k]))

\* keyword k was declared matched in segment i
Matched(i, k) ==
  keywordFound(ToLowerCase(cand.segments[i].text), ToLowerCase(keywords[k]), exactPhraseSearch)

\* p is x rounded to the nearest integer, halves upwards, for x = num / den, den > 0
IsRounded(p, num, den) == 2 * den * p <= 2 * num + den /\ 2 * num + den < 2 * den * (p + 1)

\* p is round(start + (index / length) * duration) for keyword k in segment i
IsPreciseSeconds(p, i, k) ==
  IF IsNaN(StartOf(i)) \/ IsNaN(DurationOf(i)) THEN IsNaN(p)
  ELSE IsRounded(p, StartOf(i) * Len(cand.segments[i].text) + OccurrenceIndex(i, k) * DurationOf(i),
                 Len(cand.segments[i].text))

\* match m is what the loops push for keyword k in segment i
IsMatchOf(m, i, k) ==
  /\ m.keyword = keywords[k]
  /\ m.originalTimestamp = cand.segments[i].timestamp
  /\ m.text = cand.segments[i].text
  /\ IsPreciseSeconds(m.preciseTimeSeconds, i, k)

\* C16: a match in a segment that does not end after its start is placed at the start
\* of the segment, and no match is placed before the start of its segment
C16_NonPositiveDurationIsZero ==
  pc = "extracted" =>
    \A i \in 1..Len(cand.segments), k \in 1..Len(keywords) :
      (Matched(i, k) /\ ~IsNaN(StartOf(i)) /\ ~IsNaN(DurationOf(i))) =>
         \A n \in 1..Len(cand.matches) :
           IsMatchOf(cand.matches[n], i, k) =>
             /\ DurationOf(i) <= 0 => cand.matches[n].preciseTimeSeconds = StartOf(i)
             /\ cand.matches[n].preciseTimeSeconds >= StartOf(i)
             /\ StartOf(i) >= 0

\* C17: every match kept belongs to a keyword matched in a segment, with
\* preciseTimeSeconds = round(start + (index / length) * duration), the end of the
\* segment being the start of the next one or, for the last, 5 seconds after its
\* start; preciseTimestamp is the formatted preciseTimeSeconds and the link carries
\* preciseTimeSeconds; every keyword matched in a segment is kept at that second
C17_PreciseTimeFormula ==
  pc = "extracted" =>
    /\ \A n \in 1..Len(cand.matches) :
         /\ \E i \in 1..Len(cand.segments), k \in 1..Len(keywords) :
               Matched(i, k) /\ IsMatchOf(cand.matches[n], i, k)
         /\ cand.matches[n].preciseTimestamp
              = secondsToTimestamp(cand.matches[n].preciseTimeSeconds)
         /\ cand.matches[n].url
              = [video |-> videoUrl, t |-> cand.matches[n].preciseTimeSeconds]
    /\ \A i \in 1..Len(cand.segments), k \in 1..Len(keywords) :
         Matched(i, k) =>
           \E n \in 1..Len(cand.matches) :
              /\ cand.matches[n].text = cand.segments[i].text
              /\ IsPreciseSeconds(cand.matches[n].preciseTimeSeconds, i, k)

C17_Witness ==
  /\ pc = "extracted"
  /\ Len(cand.segments) = 2
  /\ cand.segments[2] = Segment("00:10", "the quick agent runs")
  /\ \E n \in 1..Len(cand.matches) :
       /\ cand.matches[n].preciseTimeSeconds = 13
       /\ cand.matches[n].preciseTimestamp = "00:13"

\* the segment of the worked example is followed by a segment that starts at 00:20 and
\* "agent" is looked for at word boundaries
WorkedExample ==
  /\ Len(cand.segments) = 2
  /\ cand.segments[1] = Segment("00:10", "the quick agent runs")
  /\ cand.segments[2].timestamp = "00:20"
  /\ keywords[1] = "agent"
  /\ ~exactPhraseSearch

\* C18 (as stated): in the worked example the match is found, the duration is 10, the
\* position is about 0.45 and preciseTimeSeconds is 14
C18_WorkedExampleAsStated ==
  (pc = "extracted" /\ WorkedExample) =>
     /\ Len(cand.matches) >= 1
     /\ cand.matches[1].keyword = "agent"
     /\ cand.matches[1].originalTimestamp = "00:10"
     /\ DurationOf(1) = 10
     /\ 100 * OccurrenceIndex(1, 1) >= 44 * Len(cand.segments[1].text)
     /\ 100 * OccurrenceIndex(1, 1) <= 46 * Len(cand.segments[1].text)
     /\ cand.matches[1].preciseTimeSeconds = 14

\* C18 (amended): in the worked example the match is found, the duration is 10, the
\* position is 10 / 20 = 0.5 and preciseTimeSeconds is round(10 + 0.5 * 10) = 15
C18_WorkedExample ==
  (pc = "extracted" /\ WorkedExample) =>
     /\ Len(cand.matches) >= 1
     /\ cand.matches[1].keyword = "agent"
     /\ cand.matches[1].originalTimestamp = "00:10"
     /\ DurationOf(1) = 10
     /\ OccurrenceIndex(1, 1) = 10
     /\ Len(cand.segments[1].text) = 20
     /\ cand.matches[1].preciseTimeSeconds = 15
     /\ cand.matches[1].preciseTimestamp = "00:15"

C18_Witness ==
  /\ pc = "extracted"
  /\ WorkedExample
  /\ cand.segments[2].text = "Agent"
  /\ Len(keywords) = 1
  /\ Len(cand.matches) = 2

\* keywordMatches before the removal of duplicates
RawMatches == KeywordMatches(cand.segments, 1, keywords, exactPhraseSearch, videoUrl)

SameKey(a, b) == a.preciseTimeSeconds = b.preciseTimeSeconds /\ a.text = b.text

\* the positions of raw whose key occurs at no earlier position
FirstSeen(raw) == {j \in 1..Len(raw) : \A h \in 1..(j - 1) : ~SameKey(raw[h], raw[j])}

\* C19: the matches kept hold no two matches with the same (preciseTimeSeconds, text);
\* they are the raw matches whose pair is seen for the first time, in the order of the
\* raw matches, whatever the keyword
C19_DedupFirstSeen ==
  pc = "extracted" =>
    \A raw \in {RawMatches} :
      /\ \A a, b \in 1..Len(cand.matches) :
           a # b => ~SameKey(cand.matches[a], cand.matches[b])
      /\ Len(cand.matches) = Cardinality(FirstSeen(raw))
      /\ \A n \in 1..Len(cand.matches) :
           \E j \in FirstSeen(raw) :
              /\ Cardinality({x \in FirstSeen(raw) : x <= j}) = n
              /\ cand.matches[n] = raw[j]

\* two keywords match one segment at one second and the first one is kept
C19_Witness ==
  /\ pc = "extracted"
  /\ \E h, j \in 1..Len(RawMatches) :
       /\ h < j
       /\ SameKey(RawMatches[h], RawMatches[j])
       /\ RawMatches[h].keyword # RawMatches[j].keyword
       /\ \E n \in 1..Len(cand.matches) : cand.matches[n] = RawMatches[h]
       /\ \A n \in 1..Len(cand.matches) : cand.matches[n] # RawMatches[j]

\* w occurs in t at the 1-based position p
OccursAt(t, w, p) == p >= 1 /\ p + Len(w) - 1 <= Len(t) /\ SubSeq(t, p, p + Len(w) - 1) = w

IsSubstring(t, w) == \E p \in 1..Len(t) : OccursAt(t, w, p)

\* some occurrence of w in t has no letter or digit next to it
IsFlanked(t, w) ==
  \E p \in 1..Len(t) :
     /\ OccursAt(t, w, p)
     /\ p = 1 \/ ~IsAlphaNumeric(CharAt(t, p - 1))
     /\ p + Len(w) - 1 = Len(t) \/ ~IsAlphaNumeric(CharAt(t, p + Len(w)))

\* the policy in force says that keyword k matches segment i
PolicyMatches(i, k) ==
  IF exactPhraseSearch
    THEN IsSubstring(ToLowerCase(cand.segments[i].text), ToLowerCase(keywords[k]))
    ELSE IsFlanked(ToLowerCase(cand.segments[i].text), ToLowerCase(keywords[k]))

\* C20: in exact mode a keyword matches a segment iff its lower-cased form is a
\* substring of the lower-cased text; in word-boundary mode iff an occurrence of it,
\* metacharacters taken literally, has no letter or digit on either side; a
\* word-boundary match is an exact match, and "gent" in "agent" shows that the
\* converse fails
C20_MatchingPolicies ==
  pc = "extracted" =>
    \A i \in 1..Len(cand.segments), k \in 1..Len(keywords) :
      /\ PolicyMatches(i, k) =>
           \E n \in 1..Len(cand.matches) :
              /\ cand.matches[n].text = cand.segments[i].text
              /\ IsPreciseSeconds(cand.matches[n].preciseTimeSeconds, i, k)
      /\ ~PolicyMatches(i, k) =>
           \A n \in 1..Len(cand.matches) :
              ~(/\ cand.matches[n].keyword = keywords[k]
                /\ cand.matches[n].text = cand.segments[i].text)
      /\ IsFlanked(ToLowerCase(cand.segments[i].text), ToLowerCase(keywords[k]))
           => IsSubstring(ToLowerCase(cand.segments[i].text), ToLowerCase(keywords[k]))
      /\ IsSubstring("agent", "gent") /\ ~IsFlanked("agent", "gent")

\* in exact mode "gent" matches a segment in which it stands at no word boundary
C20_Witness ==
  /\ pc = "extracted"
  /\ exactPhraseSearch
  /\ keywords = <<"gent">>
  /\ \E i \in 1..Len(cand.segments), n \in 1..Len(cand.matches) :
       /\ cand.segments[i].text = "the quick agent runs"
       /\ ~IsFlanked(cand.segments[i].text, "gent")
       /\ cand.matches[n].keyword = "gent"
       /\ cand.matches[n].text = cand.segments[i].text

----------------------------------------------------------------------------
(* Properties of the results and of the end of the run *)

\* C21: every result holds at least one match, and a video whose list of matches is
\* empty after the removal of duplicates adds no result
C21_ResultsHaveMatches ==
  /\ [](\A n \in 1..Len(transcriptResults) : Len(transcriptResults[n].matches) > 0)
  /\ [][(pc' = "extracted" /\ Len(cand'.matches) = 0)
          => transcriptResults' = transcriptResults]_vars

\* a video was taken through the keyword loops without a match, after a video
\* that gave a result
C21_Witness ==
  /\ pc = "extracted"
  /\ Len(cand.segments) > 0
  /\ Len(cand.matches) = 0
  /\ Len(transcriptResults) = 1

\* C22: a step leaves the results as they are or appends one result at their end
C22_ResultsAppendOnly ==
  [][\/ transcriptResults' = transcriptResults
     \/ /\ Len(transcriptResults') = Len(transcriptResults) + 1
        /\ SubSeq(transcriptResults', 1, Len(transcriptResults)) = transcriptResults
        /\ transcriptResults'[Len(transcriptResults')].url = videoUrl
        /\ transcriptResults'[Len(transcriptResults')].matches = cand'.matches]_vars

\* the second video of the listing added the second result
C22_Witness ==
  /\ pc = "extracted"
  /\ idx = 2
  /\ Len(transcriptResults) = 2
  /\ transcriptResults[2].url = videoUrl
  /\ transcriptResults[1].url # videoUrl

\* C23: the report is written at most once, by the step that follows the last video
\* of the list, never while a video is being processed, and it is the whole list of
\* results
C23_SavedOnceAtEnd ==
  /\ [](Len(saved) <= 1)
  /\ [](pc \in CandidateSteps \cup {"skipped", "extracted"} => Len(saved) = 0)
  /\ [](Len(saved) = 1 => (pc \in {"close", "done"} /\ saved[1] = transcriptResults))
  /\ [][saved' # saved =>
          /\ pc = "save"
          /\ idx > Len(videoLinks)
          /\ cand = CleanCand
          /\ saved' = <<transcriptResults>>
          /\ transcriptResults' = transcriptResults]_vars

\* the results of two videos were written at the end of the run
C23_Witness ==
  /\ pc = "done"
  /\ Len(videoLinks) = 2
  /\ Len(saved) = 1
  /\ Len(saved[1]) = 2

\* C24: when no browser is found the run ends before the browser is launched: no page
\* is opened, no list is collected, no video is processed and nothing is written;
\* the error is written to the console
C24_NoBrowserAborts ==
  /\ [][(pc = "start" /\ browser' = "none") => pc' = "aborted"]_vars
  /\ [](pc = "aborted" =>
          /\ browser = "none"
          /\ navigations = 0 /\ idx = 0 /\ cand = CleanCand
          /\ evaluated = << >> /\ videoElements = << >> /\ videoLinks = << >>
          /\ scrollCalls = 0
          /\ saved = << >> /\ transcriptResults = << >>
          /\ RunMessages = {"ERROR: Could not find Chrome or Chromium on your system."})
  /\ [][pc # "aborted"]_vars

C24_Witness ==
  /\ pc = "aborted"
  /\ source.sizes # {0}
  /\ browser = "none"

\* C25: a failed write leaves the results as they are, raises no fatal error and is
\* followed by the closing of the browser
C25_SaveFailureIsDiagnostic ==
  /\ [][(pc = "save" /\ Len(transcriptResults) > 0 /\ saved' = saved) =>
          /\ transcriptResults' = transcriptResults
          /\ fatal' = FALSE
          /\ pc' = "close"]_vars
  /\ [][pc = "close" => (pc' = "done" /\ browser' = "closed"
                          /\ transcriptResults' = transcriptResults)]_vars
  /\ []((pc \in {"close", "done"} /\ Len(transcriptResults) > 0 /\ Len(saved) = 0) =>
          /\ ~fatal
          /\ "Error saving results:" \in RunMessages
          /\ "Fatal error:" \notin RunMessages)

\* the write failed and the run closed the browser
C25_Witness ==
  /\ pc = "done"
  /\ browser = "closed"
  /\ Len(transcriptResults) > 0
  /\ Len(saved) = 0
  /\ ~fatal

\* C26: a run that went through its videos without a result says so, writes
\* nothing and raises no fatal error
C26_NoMatchesOutcome ==
  /\ [][(pc = "save" /\ Len(transcriptResults) = 0) =>
          (saved' = << >> /\ fatal' = FALSE /\ pc' = "close")]_vars
  /\ []((pc \in {"close", "done"} /\ idx > Len(videoLinks) /\ Len(transcriptResults) = 0) =>
          /\ Len(saved) = 0
          /\ ~fatal
          /\ "No keyword matches found in any videos" \in RunMessages
          /\ "Fatal error:" \notin RunMessages)
  /\ [](fatal => "No keyword matches found in any videos" \notin RunMessages)

\* two videos were processed and none gave a result
C26_Witness ==
  /\ pc = "done"
  /\ Len(videoLinks) = 2
  /\ idx = 3
  /\ Len(transcriptResults) = 0
  /\ ~fatal

\* C27: a run that processed videos ends with a count of the videos processed,
\* matched and skipped
C27_RunSummaryReported ==
  (pc = "done" /\ ~fatal /\ Len(videoLinks) > 0)
     => \E message \in RunMessages : message = "processed / matched / skipped"

----------------------------------------------------------------------------
(* Properties of the TimeCodec *)

\* C28: a timestamp written by secondsToTimestamp for a second s >= 0 is read back as
\* s by timestampToSeconds, with or without hours; the timestamp of a match is read
\* back as the second of the match
C28_RoundTrip ==
  pc = "extracted" =>
    /\ \A s \in CodecSeconds :
         cand.segments[1].timestamp = secondsToTimestamp(s) =>
           /\ Len(cand.matches) = 1
           /\ cand.matches[1].preciseTimeSeconds = s
           /\ cand.matches[1].preciseTimestamp = cand.segments[1].timestamp
    /\ \A n \in 1..Len(cand.matches) :
         cand.matches[n].preciseTimeSeconds >= 0 =>
           timestampToSeconds(cand.matches[n].preciseTimestamp)
             = cand.matches[n].preciseTimeSeconds

\* a timestamp with hours was read back
C28_Witness ==
  /\ pc = "extracted"
  /\ cand.segments[1].timestamp = "02:02:05"
  /\ Len(cand.matches) = 1
  /\ cand.matches[1].preciseTimeSeconds = 7325

\* a part of a timestamp that is a number: digits only
IsNumericPart(part) == Len(part) > 0 /\ \A i \in 1..Len(part) : IsDigit(CharAt(part, i))

\* the seconds the timestamp stands for, 0 for any shape but H:M:S and M:S
FailClosedSeconds(timestamp) ==
  LET parts == SplitOn(timestamp, ":")
  IN  IF Len(parts) = 3 /\ \A i \in 1..3 : IsNumericPart(parts[i])
        THEN DecimalValue(parts[1]) * 3600 + DecimalValue(parts[2]) * 60
               + DecimalValue(parts[3])
      ELSE IF Len(parts) = 2 /\ \A i \in 1..2 : IsNumericPart(parts[i])
        THEN DecimalValue(parts[1]) * 60 + DecimalValue(parts[2])
      ELSE 0

\* C29: a timestamp of three parts is read as H * 3600 + M * 60 + S, one of two parts
\* as M * 60 + S, and any other text, a text with a part that is no number
\* included, as 0; the result is a non-negative integer
C29_ParseFailsClosed ==
  pc = "extracted" =>
    /\ Len(cand.matches) = 1
    /\ cand.matches[1].preciseTimeSeconds = FailClosedSeconds(cand.segments[1].timestamp)
    /\ cand.matches[1].preciseTimeSeconds \in Nat

----------------------------------------------------------------------------
(* Properties of the counters of the collector *)

\* C30: an iteration of the scroll loop records the size at its start, adds one to
\* scrollAttempts, and adds one to consecutiveNoChangeCount when the size after the
\* new query is the recorded size, setting it to 0 for any other size; hence the
\* counter is positive exactly when the last iteration left the size unchanged, and
\* it never exceeds scrollAttempts
C30_CollectorCounters ==
  /\ [][(pc = "loop" /\ pc' = "loop") =>
          /\ previousLength' = Len(videoElements)
          /\ scrollAttempts' = scrollAttempts + 1
          /\ consecutiveNoChangeCount' =
               IF Len(videoElements') = Len(videoElements)
                 THEN consecutiveNoChangeCount + 1 ELSE 0]_vars
  /\ [](consecutiveNoChangeCount <= scrollAttempts)
  /\ [](scrollAttempts > 0 =>
          (consecutiveNoChangeCount > 0 <=> Len(videoElements) = previousLength))

\* after two iterations or more, a smaller list left the counter at 0
C30_Witness ==
  /\ pc = "loop"
  /\ scrollAttempts >= 2
  /\ consecutiveNoChangeCount = 0
  /\ Len(videoElements) < previousLength

----------------------------------------------------------------------------
(* Properties of the SegmentParser *)

\* the containers of a list whose segment has a timestamp and a text
AcceptedContainers(containers) ==
  {j \in 1..Len(containers) :
     /\ ExtractSegment(containers[j]).timestamp # ""
     /\ ExtractSegment(containers[j]).text # ""}

\* segments holds, in the order of the page, what Get gives for the places in S
InEncounterOrder(segments, S, Get(_)) ==
  /\ Len(segments) = Cardinality(S)
  /\ \A n \in 1..Len(segments) :
       \E j \in S : Cardinality({x \in S : x <= j}) = n /\ segments[n] = Get(j)

\* the elements of the page that hold a timestamp and are followed by a text
Anchors(all) == {j \in 1..Len(all) : IsAnchor(all[j])}

\* C31: the selectors are tried in their order and the first one with an accepted
\* segment gives the result, alone and in the order of the page; the scan of all
\* elements is used only when no selector gave an accepted segment; every segment
\* returned has a timestamp and a text
C31_StrategyOrder ==
  lastEval.step = "parse" =>
    \A view \in {lastEval.view} : \A by \in {lastEval.strategy} :
      \A S \in {{i \in 1..NumSegmentSelectors : AcceptedContainers(view.containers[i]) # {}}} :
        /\ S # {} =>
             /\ by \in S /\ \A i \in S : by <= i
             /\ InEncounterOrder(cand.segments, AcceptedContainers(view.containers[by]),
                                 LAMBDA j : ExtractSegment(view.containers[by][j]))
        /\ (S = {} /\ Anchors(view.all) # {}) =>
             /\ by = NumSegmentSelectors + 1
             /\ InEncounterOrder(cand.segments, Anchors(view.all),
                                 LAMBDA j : [timestamp |-> Trim(view.all[j].content),
                                             text |-> Trim(view.all[j].sibling)])
        /\ (S = {} /\ Anchors(view.all) = {}) =>
             (by = 0 /\ cand.segments = << >> /\ pc = "skipped")
        /\ \A n \in 1..Len(cand.segments) :
             cand.segments[n].timestamp # "" /\ cand.segments[n].text # ""

\* the first selector gave the segments although the scan of all elements would have
\* found one too
C31_Witness ==
  /\ lastEval.step = "parse"
  /\ lastEval.strategy = 1
  /\ Anchors(lastEval.view.all) # {}
  /\ Len(cand.segments) = 2

\* the segment that the claim gives for a container: the split of the whole text
\* only when neither sub-element was found
KeptOrSplit(c) ==
  IF c.tsEls = << >> /\ c.txtEls = << >> /\ c.content # ""
       /\ RegexSplit(Trim(c.content)).matched
    THEN [timestamp |-> RegexSplit(Trim(c.content)).timestamp,
          text |-> RegexSplit(Trim(c.content)).text]
    ELSE [timestamp |-> SubText(c.tsEls), text |-> SubText(c.txtEls)]

\* C32: the whole text of a container is split only when neither the timestamp nor
\* the text sub-element was found; otherwise the values of the sub-elements are kept
C32_SplitOnlyWhenNeitherFound ==
  (lastEval.step = "parse" /\ lastEval.strategy \in 1..NumSegmentSelectors) =>
    \A n \in 1..Len(cand.segments) :
      \E j \in 1..Len(lastEval.view.containers[lastEval.strategy]) :
         cand.segments[n] = KeptOrSplit(lastEval.view.containers[lastEval.strategy][j])

----------------------------------------------------------------------------
(* Properties of the position of a keyword *)

\* match m is a match of keyword k in segment i, the only segment of the transcript
\* with its timestamp and text
IsOnlyMatchOf(m, i, k) ==
  /\ \A j \in 1..Len(cand.segments) : j # i => cand.segments[j] # cand.segments[i]
  /\ m.keyword = keywords[k]
  /\ m.originalTimestamp = cand.segments[i].timestamp
  /\ m.text = cand.segments[i].text

\* the 0-based places at which w occurs in t
Occurrences(t, w) == {p \in 0..Len(t) : OccursAt(t, w, p + 1)}

\* C33: the keyword of every match occurs in the lower-cased text of its segment, so
\* that the search for its position finds it: the index is at least 0 and the
\* position index / length is at least 0 and less than 1
C33_PositionFound ==
  pc = "extracted" =>
    \A n \in 1..Len(RawMatches) :
      \A t \in {ToLowerCase(RawMatches[n].text)}, w \in {ToLowerCase(RawMatches[n].keyword)} :
        /\ Occurrences(t, w) # {}
        /\ IndexOf(t, w) >= 0
        /\ estimateKeywordPosition(RawMatches[n].text, RawMatches[n].keyword).den = Len(t)
        /\ estimateKeywordPosition(RawMatches[n].text, RawMatches[n].keyword).num
             = IndexOf(t, w)
        /\ IndexOf(t, w) < Len(t)

\* a keyword with a metacharacter was matched at word boundaries after the start of
\* the text
C33_Witness ==
  /\ pc = "extracted"
  /\ ~exactPhraseSearch
  /\ \E n \in 1..Len(cand.matches) :
       /\ cand.matches[n].keyword = "a.i"
       /\ IndexOf(ToLowerCase(cand.matches[n].text), "a.i") = 5

\* C38: a match in a segment of positive duration lies between the start of the
\* segment and its end, the start of the next segment or, for the last segment,
\* 5 seconds after its start
C38_WithinSegment ==
  pc = "extracted" =>
    \A i \in 1..Len(cand.segments), k \in 1..Len(keywords), n \in 1..Len(cand.matches) :
      (/\ IsOnlyMatchOf(cand.matches[n], i, k)
       /\ ~IsNaN(StartOf(i)) /\ ~IsNaN(EndOf(i))
       /\ EndOf(i) - StartOf(i) > 0) =>
         /\ StartOf(i) <= cand.matches[n].preciseTimeSeconds
         /\ cand.matches[n].preciseTimeSeconds <= EndOf(i)

\* a keyword in the middle of a text was placed inside its segment
C38_Witness ==
  /\ pc = "extracted"
  /\ exactPhraseSearch
  /\ Len(cand.segments) = 2
  /\ cand.segments[1] = Segment("00:10", "the quick agent runs")
  /\ cand.segments[2].timestamp = "00:20"
  /\ \E n \in 1..Len(cand.matches) :
       /\ cand.matches[n].keyword = "gent"
       /\ cand.matches[n].preciseTimeSeconds = 16

\* C39: at word boundaries too the position of a match is that of the first
\* occurrence of the keyword in the lower-cased text, between word boundaries or
\* not: "agent" in "agents and agent" is placed at the start of the segment
C39_FirstOccurrencePosition ==
  (pc = "extracted" /\ ~exactPhraseSearch) =>
    \A i \in 1..Len(cand.segments), k \in 1..Len(keywords), n \in 1..Len(cand.matches) :
      (/\ IsOnlyMatchOf(cand.matches[n], i, k)
       /\ ~IsNaN(StartOf(i)) /\ ~IsNaN(EndOf(i))) =>
         \E p \in Occurrences(ToLowerCase(cand.segments[i].text), ToLowerCase(keywords[k])) :
            /\ \A q \in Occurrences(ToLowerCase(cand.segments[i].text),
                                     ToLowerCase(keywords[k])) : p <= q
            /\ IsRounded(cand.matches[n].preciseTimeSeconds,
                         StartOf(i) * Len(cand.segments[i].text)
                           + p * (EndOf(i) - StartOf(i)),
                         Len(cand.segments[i].text))
            /\ (cand.segments[i].text = "agents and agent" /\ keywords[k] = "agent"
                  /\ i = Len(cand.segments))
                 => cand.matches[n].preciseTimeSeconds = StartOf(i)

\* "agent" was matched at the end of "agents and agent" and placed at its start
C39_Witness ==
  /\ pc = "extracted"
  /\ ~exactPhraseSearch
  /\ cand.segments[Len(cand.segments)] = Segment("00:30", "agents and agent")
  /\ ~IsFlanked(SubSeq("agents and agent", 1, 10), "agent")
  /\ \E n \in 1..Len(cand.matches) :
       /\ cand.matches[n].keyword = "agent"
       /\ cand.matches[n].originalTimestamp = "00:30"
       /\ cand.matches[n].preciseTimeSeconds = 30

----------------------------------------------------------------------------
(* Properties of the whole run *)

\* the steps of one video in the order of the loop body
StepOrder ==
  <<"goto", "consent", "direct", "shorts", "more", "anyButton", "transcript", "popup",
    "engagement", "dropdown", "option", "parse", "title", "match">>

StepRank(step) == CHOOSE i \in 1..Len(StepOrder) : StepOrder[i] = step

\* C34: once the browser is launched the run closes it, once, and ends, whatever
\* the videos gave and after a fatal error too; nothing happens after the close;
\* the scroll loop runs at most maxScrollAttempts times, at most TargetCount videos
\* are processed and the steps of a video only go forward
C34_ClosesAndTerminates ==
  /\ (browser = "open") ~> (browser = "closed" /\ pc = "done")
  /\ [][browser' # browser =>
          \/ (browser = "none" /\ browser' = "open" /\ pc = "start")
          \/ (browser = "open" /\ browser' = "closed" /\ pc = "close" /\ pc' = "done")]_vars
  /\ [][browser # "closed"]_vars
  /\ [](scrollAttempts <= maxScrollAttempts)
  /\ [](Len(videoLinks) <= TargetCount /\ idx <= Len(videoLinks) + 1)
  /\ [][(pc \in CandidateSteps /\ pc' \in CandidateSteps /\ idx' = idx)
          => StepRank(pc') > StepRank(pc)]_vars
  /\ [][(pc \in CandidateSteps \cup {"skipped", "extracted"} /\ idx' # idx)
          => idx' = idx + 1]_vars

\* the browser was closed after a fatal error
C34_Witness ==
  /\ pc = "done"
  /\ fatal
  /\ browser = "closed"
  /\ Len(dom[2]) > 0

\* the results hold a result for the video being processed
HasResultOfCurrent == \E n \in 1..Len(transcriptResults) : transcriptResults[n].url = videoUrl

\* C35: the results change only by the push that ends the keyword loops of a video
\* with a transcript, a title and at least one match; a video that is skipped, by a
\* continue or by the catch block, and a video still being processed have no result
C35_NoPartialResult ==
  /\ [][transcriptResults' # transcriptResults =>
          /\ pc = "match" /\ pc' = "extracted"
          /\ Len(cand.segments) > 0 /\ cand.title # "unset"
          /\ Len(cand'.matches) > 0
          /\ transcriptResults' =
               Append(transcriptResults,
                      [videoId |-> VideoIdOf(videoUrl), videoTitle |-> cand.title,
                       url |-> videoUrl, matches |-> cand'.matches])]_vars
  /\ [][pc' = "skipped" => transcriptResults' = transcriptResults]_vars
  /\ [](pc \in CandidateSteps \cup {"skipped"} => ~HasResultOfCurrent)
  /\ []((pc = "extracted" /\ Len(cand.matches) = 0) => ~HasResultOfCurrent)

\* the second video failed in the keyword loops and left the result of the first alone
C35_Witness ==
  /\ pc = "skipped"
  /\ cand.error
  /\ cand.skippedAt = "match"
  /\ idx = 2
  /\ Len(transcriptResults) = 1

\* the place of a link in the list of videos
PlaceOf(url) == CHOOSE i \in 1..Len(videoLinks) : videoLinks[i] = url

\* C36: the results hold at most one result for a video, in the order of the list of
\* videos, and only for videos reached so far: they are never more than the videos,
\* which are at most TargetCount
C36_ResultsFollowCandidates ==
  /\ \A n \in 1..Len(transcriptResults) :
       \E i \in 1..Len(videoLinks) : i <= idx /\ videoLinks[i] = transcriptResults[n].url
  /\ \A a, b \in 1..Len(transcriptResults) :
       a < b => /\ transcriptResults[a].url # transcriptResults[b].url
                /\ PlaceOf(transcriptResults[a].url) < PlaceOf(transcriptResults[b].url)
  /\ Len(transcriptResults) <= Len(videoLinks)
  /\ Len(videoLinks) <= TargetCount

\* of two videos, each linked twice in the listing, both gave one result
C36_Witness ==
  /\ pc = "done"
  /\ Len(videoElements) = 4
  /\ Len(videoLinks) = 2
  /\ Len(transcriptResults) = 2

\* C37: every video that leaves steps 2 and 3 without being skipped goes through the
\* search of step 4, a video whose direct control was clicked included; there,
\* without a transcript panel, a menu item, a control labelled transcript or the
\* "more actions" control is clicked if there is one, and the video is skipped if
\* there is none
C37_Step4AfterDirect ==
  /\ [][(pc \in {"direct", "shorts", "more", "anyButton"}
           /\ pc' \notin {"skipped", "shorts", "more", "anyButton"}) => pc' = "transcript"]_vars
  /\ [][(pc = "direct" /\ cand'.direct = "true" /\ pc' # "skipped")
          => (pc' = "transcript" /\ clickCount' = clickCount + 1)]_vars
  /\ []((lastEval.step = "transcript" /\ cand.direct = "true" /\ ~lastEval.view.panel) =>
          IF \/ \E i \in 1..Len(lastEval.view.menuItems) :
                  IsTranscriptMenuItem(lastEval.view.menuItems[i])
             \/ \E i \in 1..Len(lastEval.view.buttons) :
                  IsTranscriptButton(lastEval.view.buttons[i])
             \/ lastEval.view.dots > 0
            THEN /\ lastEval.clicked > 0
                 /\ lastEval.by \in {"menuItems", "buttons", "moreActions"}
                 /\ clickCount = 2 + (IF cand.accept = "true" THEN 1 ELSE 0)
                 /\ pc \in {"dropdown", "popup"}
            ELSE /\ lastEval.clicked = 0
                 /\ pc = "skipped" /\ cand.skippedAt = "transcript")

\* a video whose direct control was clicked was skipped in step 4
C37_Witness ==
  /\ pc = "skipped"
  /\ cand.direct = "true"
  /\ cand.skippedAt = "transcript"
  /\ ~cand.error
  /\ lastEval.step = "transcript"

\* the most clicks a video can have made when it reaches a step
ClickBound(step) ==
  CASE step \in {"goto", "consent"} -> 0
    [] step \in {"direct", "shorts", "more", "anyButton"} -> 1
    [] step = "transcript" -> 2
    [] step \in {"popup", "engagement"} -> 3
    [] step = "dropdown" -> 4
    [] step = "option" -> 5
    [] OTHER -> 6

\* C40: a video is navigated to once and at most 6 elements are clicked for it: one
\* in the consent step, one in steps 2 and 3 together, two in step 4 and two in
\* step 5; a step clicks at most one element and no step is gone through twice
C40_ActivationBudget ==
  /\ [](navigations <= 1 /\ clickCount <= 6)
  /\ [](pc \in (CandidateSteps \ {"goto"}) \cup {"extracted"} => navigations = 1)
  /\ [](pc \in CandidateSteps => clickCount <= ClickBound(pc))
  /\ [][(pc \in CandidateSteps /\ idx' = idx) =>
          /\ clickCount' \in {clickCount, clickCount + 1}
          /\ navigations' = navigations + (IF pc = "goto" /\ pc' # "skipped" THEN 1 ELSE 0)
          /\ pc' \in CandidateSteps => StepRank(pc') > StepRank(pc)]_vars
  /\ [][(pc \in {"direct", "shorts", "more", "anyButton"} /\ clickCount' = clickCount + 1)
          => pc' = "transcript"]_vars
  /\ [][(pc \in {"popup", "engagement"} /\ clickCount' = clickCount + 1)
          => pc' = "dropdown"]_vars
  /\ [][(pc = "dropdown" /\ clickCount' = clickCount) => pc' \in {"parse", "skipped"}]_vars

\* six elements were clicked for one video
C40_Witness ==
  /\ pc = "parse"
  /\ navigations = 1
  /\ clickCount = 6
  /\ cand.accept = "true"
  /\ cand.popup = "true"

====
